---- MODULE Spec2Model ----
(***************************************************************************)
(* Model of the CAMEL discussion engine: the orchestrator's turn loop      *)
(* (src/src/camel_engine/orchestrator.py), the consensus detector          *)
(* (src/src/camel_engine/consensus.py), the WebSocket connection manager   *)
(* (src/src/api/websocket/manager.py) and the discussion routes with the   *)
(* background runner (src/src/api/routes/discussions.py).                  *)
(*                                                                         *)
(* One discussion is modelled.  Every coroutine is a process whose steps   *)
(* are the spans of code between two suspension points (await of an LLM    *)
(* call, of a database call, of a WebSocket send, of a sleep).             *)
(***************************************************************************)
EXTENDS Integers, Sequences, FiniteSets, TLC

(***************************************************************************)
(* Bounds of the model.                                                    *)
(***************************************************************************)
\* largest turn cap (settings value or per-run override) that is explored
MaxTurnsHi == 4
\* number of WebSocket connections that may subscribe
NumConns == 1
\* number of stop requests
MaxStops == 1
\* number of user messages posted through the route
MaxPosts == 1
\* number of direct orchestrator.send_user_message calls
MaxUserMsgs == 1
\* connections and broadcast calls of the ConnectionManager taken alone
NumBusConns == 2
MaxEvents == 2
\* longest transcript handed to the consensus detector taken alone
MaxTranscript == 7
\* connections of the shutdown scenario
NumSdConns == 2
\* number of DELETE requests
MaxDeletes == 2
\* largest turn cap of the runs with a repeating utterance stub
StaleTurnsHi == 8
\* number of run_discussion calls on the discussion
MaxRuns == 2

(***************************************************************************)
(* Program constants.                                                      *)
(***************************************************************************)
\* CreateDiscussionRequest.max_turns: Field(None, ge=3, le=50)
MinTurnsLo == 3
\* consensus_threshold, in percent
consensus_threshold == 85
\* ConsensusDetector.check_consensus: minimum number of messages
MinMessages == 3
\* ConsensusDetector.detect_stalemate: window, similarity threshold (tenths)
\* and number of similar pairs that must be exceeded
StalemateWindow == 6
SimilarityTenths == 7
SimilarPairs == 2
\* confidence of the stalemate snapshot and of the analysis-failure snapshot
StalemateConfidence == 30
FallbackConfidence == 50
\* sizes of the context windows of the speaker selection
FallbackWindow == 10

Conns == 1..NumConns
Roles == <<"R1", "R2">>

Min2(a, b) == IF a < b THEN a ELSE b
Last(s, n) == SubSeq(s, Len(s) - Min2(n, Len(s)) + 1, Len(s))

(***************************************************************************)
(* Messages.  A content is a sentence; Words gives content.lower().split() *)
(* as a set, which is all the stalemate heuristic reads.                   *)
(***************************************************************************)
SysText == "SYS"
ErrText == "ERR"
UserText == "USR"

Words(content) ==
  CASE content = "SYS" -> {"discussion", "started:", "topic", "participants:", "r1,", "r2"}
    [] content = "U1" -> {"i", "concur."}
    [] content = "U2" -> {"we", "need", "more", "data"}
    [] content = "ERR" -> {"[error", "generating", "response:", "timeout]"}
    [] content = "" -> {}
    [] content = "V1" -> {"ship", "it", "next", "week"}
    [] content = "V2" -> {"ship", "it", "next"}
    [] content = "V3" -> {"w1", "w2", "w3", "w4", "w5", "w6", "w7"}
    [] content = "V4" -> {"w1", "w2", "w3", "w4", "w5", "w6", "w7", "w8", "w9", "w10"}
    [] OTHER -> {"please", "consider", "cost-effectiveness."}

DiscussionMessage(id, role_name, content, is_user, turn_number) ==
  [id |-> id, role_name |-> role_name, content |-> content,
   is_user |-> is_user, turn_number |-> turn_number]

\* a list comprehension without its "if not msg.is_user"
EvaluatorMessagesUnfiltered(msgs) == msgs

\* the messages handed to the consensus detector: user messages filtered out
NotUser(m) == ~m.is_user

EvaluatorMessages(msgs) == SelectSeq(msgs, NotUser)

(***************************************************************************)
(* ConsensusDetector                                                       *)
(***************************************************************************)
ConsensusResult(reached, confidence, disagreements, recommendation) ==
  [reached |-> reached, confidence |-> confidence,
   disagreements |-> disagreements, recommendation |-> recommendation]

NoResult == ConsensusResult(FALSE, 0, 0, "none")

Similar(a, b) ==
  LET wi == Words(a)
      wj == Words(b)
  IN  /\ wi # {}
      /\ wj # {}
      /\ 10 * Cardinality(wi \cap wj) > SimilarityTenths * Cardinality(wi \cup wj)

detect_stalemate_two_pairs(msgs) ==
  IF Len(msgs) < StalemateWindow THEN FALSE
  ELSE LET recent == Last(msgs, StalemateWindow)
           similar_count ==
             Cardinality({p \in (1..Len(recent)) \X (1..Len(recent)) :
                            /\ p[1] < p[2]
                            /\ Similar(recent[p[1]].content, recent[p[2]].content)})
       IN  similar_count >= SimilarPairs

detect_stalemate(msgs) ==
  IF Len(msgs) < StalemateWindow THEN FALSE
  ELSE LET recent == Last(msgs, StalemateWindow)
           similar_count ==
             Cardinality({p \in (1..Len(recent)) \X (1..Len(recent)) :
                            /\ p[1] < p[2]
                            /\ Similar(recent[p[1]].content, recent[p[2]].content)})
       IN  similar_count > SimilarPairs

\* a detector without the minimum of three messages
check_consensus_sync_no_minimum(msgs) ==
  IF detect_stalemate(msgs)
  THEN ConsensusResult(FALSE, StalemateConfidence, 1, "escalate")
  ELSE NoResult

\* the part of check_consensus before the LLM call: a snapshot, or NoResult
\* when the analysis call has to be made
check_consensus_sync(msgs) ==
  IF Len(msgs) < MinMessages THEN ConsensusResult(FALSE, 0, 0, "continue")
  ELSE IF detect_stalemate(msgs)
       THEN ConsensusResult(FALSE, StalemateConfidence, 1, "escalate")
       ELSE NoResult

\* what the analysis call can answer: a confidence (percent) and whether
\* disagreements remain, or a failure (transport, decode, validation)
ConfidenceLevels == {20, 95}
AnalysisResponses ==
  {[ok |-> TRUE, confidence |-> c, disagreements |-> n] :
      c \in ConfidenceLevels, n \in {0, 1}}
  \cup {[ok |-> FALSE, confidence |-> 0, disagreements |-> 0]}

\* analyze_consensus of a detector constructed with consensus_threshold
\* theta (percent)
analyze_consensus_at(resp, theta) ==
  IF resp.ok
  THEN ConsensusResult(resp.confidence >= theta, resp.confidence,
                       resp.disagreements, "continue")
  ELSE ConsensusResult(FALSE, FallbackConfidence, 1, "continue")

\* the part of check_consensus after the LLM call
check_consensus_finish_at(resp, turn, cap, theta) ==
  LET analysis == analyze_consensus_at(resp, theta)
      reached == analysis.confidence >= theta
      recommendation ==
        IF reached THEN "conclude"
        ELSE IF turn >= cap THEN "conclude"
        ELSE IF analysis.disagreements = 0 THEN "conclude"
        ELSE "continue"
  IN  [analysis EXCEPT !.recommendation = recommendation]

\* the detector of the orchestrator: threshold 0.85
analyze_consensus(resp) == analyze_consensus_at(resp, consensus_threshold)

check_consensus_finish(resp, turn, cap) ==
  check_consensus_finish_at(resp, turn, cap, consensus_threshold)


(***************************************************************************)
(* State                                                                   *)
(***************************************************************************)
VARIABLES
  \* orchestrator.active_discussions[DiscId]: the in-memory Discussion
  status, consensus_reached, current_turn, messages,
  \* DiscussionOrchestrator.max_turns and the max_turns of the create request
  \* (0 stands for None)
  self_max_turns, req_max_turns,
  \* what the stubbed LLM can answer to the utterance call (sentences or
  \* "FAIL"), to the speaker-selection call and to the analysis call
  llm_utterances, llm_speakers, llm_analysis,
  \* run_discussion_background / run_discussion: position and locals
  pc, max_turns, speaker, consensus, result, msg_idx,
  \* the discussions and messages tables
  db_status, db_consensus_reached, db_messages,
  \* ConnectionManager, the client side of each WebSocket, what it received
  active_connections, connection_mapping, conn_state, inbox,
  \* the broadcast each coroutine is suspended in
  bc,
  \* the stop route, the message route, direct send_user_message calls
  stop_pc, stop_resp, stops_left,
  post_pc, post_resp, posts_left,
  user_msgs_left,
  \* the ids registered in orchestrator.active_discussions, the ids with a
  \* row in the discussions table, and the last request with its answer
  active_discussions, db_discussions, req,
  \* history: the events handed to broadcast, in the order of the calls
  published,
  \* disconnect_all: its position, the keys and connections it still has to
  \* visit, the connections it closed
  shutdown,
  \* a call of a function of the engine taken alone: its arguments and result
  probe,
  \* the delete route
  delete_pc, delete_id, delete_resp, deletes_left,
  \* history: what the discussion looked like when stop was accepted
  stop_at,
  \* history of the run: the turns at which the loop consulted the detector,
  \* whether every snapshot so far said reached, and how the loop was left
  hist

disc_vars == <<status, consensus_reached, current_turn, messages>>
llm_vars == <<self_max_turns, req_max_turns, llm_utterances, llm_speakers, llm_analysis>>
delete_vars == <<delete_pc, delete_id, delete_resp, deletes_left>>
aux_vars == <<shutdown, probe>>
reg_vars == <<active_discussions, db_discussions, req, delete_vars, published, aux_vars>>
cfg_vars == <<llm_vars, reg_vars>>
run_vars == <<pc, max_turns, speaker, consensus, result, msg_idx, hist>>
db_vars == <<db_status, db_consensus_reached, db_messages>>
ws_vars == <<active_connections, connection_mapping, inbox, bc>>
stop_vars == <<stop_pc, stop_resp, stops_left, stop_at>>
post_vars == <<post_pc, post_resp, posts_left>>
vars == <<disc_vars, cfg_vars, run_vars, db_vars, ws_vars, conn_state,
          stop_vars, post_vars, user_msgs_left>>

DiscId == "d1"
\* a discussion of an earlier process: its row is in the table, the
\* in-memory map of this process does not hold it
StaleId == "d0"
\* an id that was never created
UnknownId == "dx"
Ids == {DiscId, StaleId, UnknownId}
NoRequest == [op |-> "none", id |-> DiscId, resp |-> "none"]
NoShutdown == [pc |-> "idle", keys |-> {}, conns |-> {}, closed |-> {}, initial |-> {}]
NoProbe == [fn |-> "none"]
NoRole == "none"
NoDiscussionResult == [total_turns |-> 0, consensus_reached |-> FALSE, set |-> FALSE]

(***************************************************************************)
(* DiscussionOrchestrator.  o is the Discussion together with the locals   *)
(* of run_discussion; each operator runs the code from one point up to the *)
(* next await and returns the state there.                                 *)
(***************************************************************************)
Orch ==
  [status |-> status, consensus_reached |-> consensus_reached,
   current_turn |-> current_turn, messages |-> messages,
   pc |-> pc, max_turns |-> max_turns, speaker |-> speaker,
   consensus |-> consensus, result |-> result, msg_idx |-> msg_idx, hist |-> hist]

add_message(o, message) == [o EXCEPT !.messages = Append(@, message)]

add_system_message(o) ==
  add_message(o, DiscussionMessage(Len(o.messages) + 1, "System", SysText, FALSE, 0))

\* an orchestrator that stores the verdict of every snapshot in the flag
ObservedStored(o, snap) ==
  [o EXCEPT !.hist.always_reached = @ /\ snap.reached, !.consensus_reached = snap.reached]

\* history: whether every snapshot so far said reached
Observed(o, snap) == [o EXCEPT !.hist.always_reached = @ /\ snap.reached]

\* generate_result up to its first await: the final consensus check, then
\* the request of the final summary
generate_result(o) ==
  LET snap == check_consensus_sync(EvaluatorMessages(o.messages))
  IN  IF snap = NoResult
      THEN [o EXCEPT !.pc = "final_consensus", !.consensus = NoResult]
      ELSE [Observed(o, snap) EXCEPT !.pc = "final_summary", !.consensus = snap]

\* generate_agent_message up to the utterance call
generate_agent_message(o, role) ==
  [o EXCEPT !.speaker = role, !.pc = "generate_message"]

\* select_next_speaker up to its LLM call, or its answer on the first turn
select_next_speaker(o) ==
  IF Len(o.messages) <= 1
  THEN generate_agent_message(o, Roles[1])
  ELSE [o EXCEPT !.pc = "select_speaker"]

\* the loop with an inclusive bound: while current_turn <= max_turns
LoopHeadInclusive(o) ==
  IF o.current_turn <= o.max_turns
  THEN select_next_speaker([o EXCEPT !.current_turn = @ + 1, !.consensus = NoResult])
  ELSE generate_result([o EXCEPT !.hist.loop_exit = "cap"])

\* the head of the while loop of run_discussion
LoopHead(o) ==
  IF o.current_turn < o.max_turns
  THEN select_next_speaker([o EXCEPT !.current_turn = @ + 1, !.consensus = NoResult])
  ELSE generate_result([o EXCEPT !.hist.loop_exit = "cap"])

\* run_discussion, lines 188-196: what the loop does with a snapshot
HandleConsensus(o, snap) ==
  IF snap.reached
  THEN generate_result([Observed(o, snap) EXCEPT !.consensus_reached = TRUE,
                                                !.status = "completed",
                                                !.hist.loop_exit = "reached"])
  ELSE IF snap.recommendation = "escalate"
       THEN generate_result([Observed(o, snap) EXCEPT !.hist.loop_exit = "escalate"])
       ELSE LoopHead(Observed(o, snap))

\* a check on every turn from the third on
ConsensusCheckDueEveryTurn(turn) == turn >= 3

\* run_discussion, lines 184-186: the in-loop consensus check
ConsensusCheckDue(turn) == turn >= 3 /\ turn % 2 = 0

LoopConsensusCheck(o) ==
  IF ConsensusCheckDue(o.current_turn)
  THEN LET snap == check_consensus_sync(EvaluatorMessages(o.messages))
           oc == [o EXCEPT !.hist.loop_checks = @ \cup {o.current_turn}]
       IN  IF snap = NoResult
           THEN [oc EXCEPT !.pc = "loop_consensus"]
           ELSE HandleConsensus(oc, snap)
  ELSE LoopHead(o)

\* an id taken from the turn counter (the system message has id 1)
AgentMessageIdByTurn(o) == o.current_turn + 1

\* generate_agent_message after the utterance call, and the append
AgentMessageId(o) == Len(o.messages) + 1

\* a message stamped with the turn before the increment of line 171
AgentMessagePreviousTurn(o, content) ==
  DiscussionMessage(AgentMessageId(o), o.speaker, content, FALSE, o.current_turn - 1)

AgentMessage(o, content) ==
  DiscussionMessage(AgentMessageId(o), o.speaker, content, FALSE, o.current_turn)

\* generate_agent_message without its except clause: the exception of the
\* utterance call leaves run_discussion
AfterUtteranceUncaught(o, content) ==
  IF content = ErrText
  THEN [o EXCEPT !.pc = "exc_update"]
  ELSE LoopConsensusCheck([add_message(o, AgentMessage(o, content)) EXCEPT !.speaker = NoRole])

AfterUtterance(o, content) ==
  LoopConsensusCheck([add_message(o, AgentMessage(o, content)) EXCEPT !.speaker = NoRole])

\* _fallback_speaker_selection
RoleCount(msgs, name) ==
  Cardinality({k \in 1..Len(msgs) : msgs[k].role_name = name})

fallback_speaker_selection(msgs) ==
  LET recent == Last(msgs, FallbackWindow)
      min_count == CHOOSE n \in 0..Len(recent) :
                     /\ \E k \in 1..Len(Roles) : RoleCount(recent, Roles[k]) = n
                     /\ \A k \in 1..Len(Roles) : RoleCount(recent, Roles[k]) >= n
      first == CHOOSE k \in 1..Len(Roles) :
                 /\ RoleCount(recent, Roles[k]) = min_count
                 /\ \A j \in 1..(k - 1) : RoleCount(recent, Roles[j]) # min_count
  IN  Roles[first]

\* a in b, for the answers of the speaker-selection call: a role name, the
\* empty string, a name that is no role, or "FAIL" when the call raises
IsSubstring(a, b) == a = "" \/ a = b

MatchingRoles(selected_name) ==
  {k \in 1..Len(Roles) :
     IsSubstring(Roles[k], selected_name) \/ IsSubstring(selected_name, Roles[k])}

SelectedSpeaker(msgs, response) ==
  IF response = "FAIL" \/ MatchingRoles(response) = {}
  THEN fallback_speaker_selection(msgs)
  ELSE Roles[CHOOSE k \in MatchingRoles(response) :
               \A j \in MatchingRoles(response) : k <= j]

\* run_discussion, lines 153-171
EffectiveMaxTurns(override, default) == IF override # 0 THEN override ELSE default

run_discussion(o) ==
  LoopHead(add_system_message(
    [o EXCEPT !.max_turns = EffectiveMaxTurns(req_max_turns, self_max_turns)]))

\* run_discussion, lines 199-210, and the head of the for loop of
\* run_discussion_background
FinalStatus(o) == "completed"

AfterSummary(o) ==
  [o EXCEPT !.result = [total_turns |-> o.current_turn,
                        consensus_reached |-> o.consensus.reached, set |-> TRUE],
            !.status = FinalStatus(o),
            !.consensus = NoResult,
            !.msg_idx = 1,
            !.pc = IF Len(o.messages) >= 1 THEN "save_message" ELSE "update_status"]

SetOrch(o) ==
  /\ status' = o.status
  /\ consensus_reached' = o.consensus_reached
  /\ current_turn' = o.current_turn
  /\ messages' = o.messages
  /\ pc' = o.pc
  /\ max_turns' = o.max_turns
  /\ speaker' = o.speaker
  /\ consensus' = o.consensus
  /\ result' = o.result
  /\ msg_idx' = o.msg_idx
  /\ hist' = o.hist


(***************************************************************************)
(* ConnectionManager.  active_connections is a function whose domain is    *)
(* the set of keys of the dict; a broadcast that is suspended in a send    *)
(* holds an iterator over the set object of its discussion.                *)
(***************************************************************************)
Event(type, role, turn, reached) ==
  [type |-> type, role |-> role, turn |-> turn, reached |-> reached]

NoEvent == Event("none", NoRole, 0, FALSE)

Broadcasters == {"run", "stop", "post", "delete"}

\* no broadcast in progress
NoBroadcast ==
  [on |-> FALSE, ev |-> NoEvent, must |-> {}, seen |-> {}, used |-> 0,
   broken |-> FALSE, dead |-> {}]

Subscribers(ac, d) == IF d \in DOMAIN ac THEN ac[d] ELSE {}

Restrict(f, S) == [x \in S |-> f[x]]

\* ConnectionManager.connect, lines 41-47
Registered(ac, c, d) ==
  IF d \in DOMAIN ac
  THEN [ac EXCEPT ![d] = @ \cup {c}]
  ELSE [k \in DOMAIN ac \cup {d} |-> IF k = d THEN {c} ELSE ac[k]]

Mapped(cm, c, d) == [k \in DOMAIN cm \cup {c} |-> IF k = c THEN d ELSE cm[k]]

\* disconnect without the clean-up of empty sets
DiscardedKeepsEmpty(ac, c, d) ==
  IF d \in DOMAIN ac THEN [ac EXCEPT ![d] = @ \ {c}] ELSE ac

\* ConnectionManager.disconnect, lines 77-83 and line 86
Discarded(ac, c, d) ==
  IF d \in DOMAIN ac
  THEN IF ac[d] \ {c} = {}
       THEN Restrict(ac, DOMAIN ac \ {d})
       ELSE [ac EXCEPT ![d] = @ \ {c}]
  ELSE ac

Unmapped(cm, c) == Restrict(cm, DOMAIN cm \ {c})

RECURSIVE DiscardedAll(_, _, _)
DiscardedAll(ac, cs, d) ==
  IF cs = {} THEN ac
  ELSE LET c == CHOOSE x \in cs : TRUE
       IN  DiscardedAll(Discarded(ac, c, d), cs \ {c}, d)

\* the set object of d is dropped from the dict: every iterator over it sees
\* a set of another size from then on
Invalidated(b, ac, ac2, except) ==
  [p \in Broadcasters |->
     IF p # except /\ b[p].on /\ DiscId \in DOMAIN ac /\ DiscId \notin DOMAIN ac2
     THEN [b[p] EXCEPT !.broken = TRUE]
     ELSE b[p]]

\* next() of the set iterator raises RuntimeError
IterRaises(p) ==
  \/ bc[p].broken
  \/ Cardinality(Subscribers(active_connections, DiscId)) # bc[p].used

\* the connections the iterator still has to yield
IterMust(p) == bc[p].must \cap Subscribers(active_connections, DiscId)

\* connection.send_text to c: delivered, or raising
Sent(ib, c, ev, ok) == IF ok THEN [ib EXCEPT ![c] = Append(@, ev)] ELSE ib

\* ConnectionManager.broadcast up to its first await
BroadcastBegin(p, ev) ==
  IF DiscId \notin DOMAIN active_connections
  THEN UNCHANGED ws_vars
  ELSE \E c \in active_connections[DiscId], ok \in BOOLEAN :
         /\ bc' = [bc EXCEPT ![p] =
                     [on |-> TRUE, ev |-> ev,
                      must |-> active_connections[DiscId] \ {c}, seen |-> {c},
                      used |-> Cardinality(active_connections[DiscId]),
                      broken |-> FALSE, dead |-> IF ok THEN {} ELSE {c}]]
         /\ inbox' = Sent(inbox, c, ev, ok)
         /\ UNCHANGED <<active_connections, connection_mapping>>

BroadcastSuspends == DiscId \in DOMAIN active_connections

\* the awaited send returned and the for loop of broadcast goes on: next()
\* raises RuntimeError when the set changed size, or the loop ends and the
\* dead connections are disconnected (lines 120-122), or the next
\* connection is sent to.  BroadcastOutcome tells which.
BroadcastOutcome(p) ==
  IF IterRaises(p) THEN "raised"
  ELSE IF IterMust(p) = {} THEN "returned"
  ELSE "suspended"

BroadcastResume(p) ==
  /\ bc[p].on
  /\ IF IterRaises(p)
     THEN /\ bc' = [bc EXCEPT ![p] = NoBroadcast]
          /\ UNCHANGED <<active_connections, connection_mapping, inbox>>
     ELSE IF IterMust(p) = {}
     THEN LET ac2 == DiscardedAll(active_connections, bc[p].dead, DiscId)
          IN  /\ active_connections' = ac2
              /\ connection_mapping' =
                   Restrict(connection_mapping, DOMAIN connection_mapping \ bc[p].dead)
              /\ bc' = [Invalidated(bc, active_connections, ac2, p)
                          EXCEPT ![p] = NoBroadcast]
              /\ UNCHANGED inbox
     ELSE \E c \in IterMust(p), ok \in BOOLEAN :
            /\ bc' = [bc EXCEPT ![p].must = @ \ {c}, ![p].seen = @ \cup {c},
                                ![p].dead = IF ok THEN @ ELSE @ \cup {c}]
            /\ inbox' = Sent(inbox, c, bc[p].ev, ok)
            /\ UNCHANGED <<active_connections, connection_mapping>>

(***************************************************************************)
(* Initial state: the create route has registered the discussion, saved it *)
(* as "running" and scheduled run_discussion_background.                   *)
(***************************************************************************)
TurnCaps == MinTurnsLo..MaxTurnsHi

\* (orchestrator default, request override): no override, a lower and a
\* higher override
RunConfigs ==
  {<<d, 0>> : d \in TurnCaps} \cup {<<MaxTurnsHi, MinTurnsLo>>, <<MinTurnsLo, MaxTurnsHi>>}

InitCommon ==
  /\ status = "active"
  /\ consensus_reached = FALSE
  /\ current_turn = 0
  /\ messages = <<>>
  /\ pc = "start"
  /\ max_turns = 0
  /\ speaker = NoRole
  /\ consensus = NoResult
  /\ result = NoDiscussionResult
  /\ msg_idx = 0
  /\ hist = [loop_checks |-> {}, always_reached |-> TRUE, loop_exit |-> "none"]
  /\ db_status = "running"
  /\ db_consensus_reached = FALSE
  /\ db_messages = <<>>
  /\ active_connections = << >>
  /\ connection_mapping = << >>
  /\ conn_state = [c \in Conns |-> "new"]
  /\ inbox = [c \in Conns |-> <<>>]
  /\ bc = [p \in Broadcasters |-> NoBroadcast]
  /\ stop_pc = "idle"
  /\ stop_resp = 0
  /\ post_pc = "idle"
  /\ post_resp = 0
  /\ stop_at = [accepted |-> FALSE, turn |-> 0, len |-> 0]
  /\ active_discussions = {DiscId}
  /\ req = NoRequest
  /\ published = <<>>
  /\ shutdown = NoShutdown
  /\ probe = NoProbe
  /\ delete_pc = "idle"
  /\ delete_id = DiscId
  /\ delete_resp = "none"

\* the service: routes, WebSocket subscribers and the background task, with
\* a stub that utters one sentence and never answers the speaker selection
Init ==
  /\ InitCommon
  /\ db_discussions = {DiscId}
  /\ deletes_left = 0
  /\ self_max_turns = MaxTurnsHi
  /\ req_max_turns = 0
  /\ llm_utterances = {"U1"}
  /\ llm_speakers = {"FAIL"}
  /\ llm_analysis = {r \in AnalysisResponses : r.ok /\ r.confidence = 95 /\ r.disagreements = 0}
  /\ stops_left = MaxStops
  /\ posts_left = MaxPosts
  /\ user_msgs_left = 0

\* run_discussion and the stop route without subscribers, with direct calls
\* of send_user_message; the utterance call and the analysis call answer
\* anything, the speaker-selection call either always names R2 or always
\* fails
InitRun ==
  /\ InitCommon
  /\ db_discussions = {DiscId}
  /\ deletes_left = 0
  /\ \E cfg \in RunConfigs : self_max_turns = cfg[1] /\ req_max_turns = cfg[2]
  /\ llm_utterances = {"U1", "FAIL"}
  /\ llm_speakers \in {{"R2"}, {"FAIL"}}
  /\ llm_analysis = AnalysisResponses
  /\ stops_left = MaxStops
  /\ posts_left = 0
  /\ user_msgs_left = MaxUserMsgs

(***************************************************************************)
(* run_discussion_background and run_discussion                            *)
(***************************************************************************)
not_run == <<cfg_vars, db_vars, ws_vars, conn_state, stop_vars, post_vars, user_msgs_left>>

\* the task starts: run_discussion up to its first LLM call
RunStart ==
  /\ pc = "start"
  /\ SetOrch(run_discussion(Orch))
  /\ UNCHANGED not_run

\* the speaker-selection call returns or raises
SpeakerReturns ==
  /\ pc = "select_speaker"
  /\ \E response \in llm_speakers :
       SetOrch(generate_agent_message(Orch, SelectedSpeaker(messages, response)))
  /\ UNCHANGED not_run

\* the utterance call returns or raises; the message is appended
UtteranceReturns ==
  /\ pc = "generate_message"
  /\ \E u \in llm_utterances :
       SetOrch(AfterUtterance(Orch, IF u = "FAIL" THEN ErrText ELSE u))
  /\ UNCHANGED not_run

\* orchestrator.check_consensus hands self.max_turns to the detector
LoopConsensusReturns ==
  /\ pc = "loop_consensus"
  /\ \E resp \in llm_analysis :
       SetOrch(HandleConsensus(Orch,
                 check_consensus_finish(resp, current_turn, self_max_turns)))
  /\ UNCHANGED not_run

FinalConsensusReturns ==
  /\ pc = "final_consensus"
  /\ \E resp \in llm_analysis :
       LET snap == check_consensus_finish(resp, current_turn, self_max_turns)
       IN  SetOrch([Observed(Orch, snap) EXCEPT !.consensus = snap,
                                               !.pc = "final_summary"])
  /\ UNCHANGED not_run

\* the summary call returns a text (or fails, and consensus.summary is used)
FinalSummaryReturns ==
  /\ pc = "final_summary"
  /\ SetOrch(AfterSummary(Orch))
  /\ UNCHANGED not_run

\* the summary call returns a null content: DiscussionResult(final_summary=None)
\* raises a validation error, which leaves run_discussion
FinalSummaryNull ==
  /\ pc = "final_summary"
  /\ pc' = "exc_update"
  /\ consensus' = NoResult
  /\ UNCHANGED <<disc_vars, max_turns, speaker, result, msg_idx, hist>>
  /\ UNCHANGED not_run

AgentMessageEvent(m) == Event("agent_message", m.role_name, m.turn_number, FALSE)

\* save_message_to_db returns; broadcast_agent_message starts
SaveMessage ==
  /\ pc = "save_message"
  /\ db_messages' = Append(db_messages,
                      [role_name |-> messages[msg_idx].role_name, is_user |-> FALSE])
  /\ BroadcastBegin("run", AgentMessageEvent(messages[msg_idx]))
  /\ pc' = IF BroadcastSuspends THEN "bcast_message" ELSE "sleep"
  /\ UNCHANGED <<disc_vars, cfg_vars, max_turns, speaker, consensus, result, msg_idx, hist,
                 db_status, db_consensus_reached, conn_state, stop_vars, post_vars,
                 user_msgs_left>>

\* the send of broadcast_agent_message returned
MessageBroadcastResumes ==
  /\ pc = "bcast_message"
  /\ BroadcastResume("run")
  /\ pc' = CASE BroadcastOutcome("run") = "raised" -> "exc_update"
             [] BroadcastOutcome("run") = "returned" -> "sleep"
             [] OTHER -> pc
  /\ UNCHANGED <<disc_vars, cfg_vars, max_turns, speaker, consensus, result, msg_idx, hist,
                 db_vars, conn_state, stop_vars, post_vars, user_msgs_left>>

\* asyncio.sleep(0.1) returns; the for loop takes the next message of the
\* list result.messages, which is the list discussion.messages itself
Wake ==
  /\ pc = "sleep"
  /\ IF msg_idx < Len(messages)
     THEN msg_idx' = msg_idx + 1 /\ pc' = "save_message"
     ELSE msg_idx' = msg_idx /\ pc' = "update_status"
  /\ UNCHANGED <<disc_vars, max_turns, speaker, consensus, result, hist>>
  /\ UNCHANGED not_run

CompleteEvent(r) == Event("discussion_complete", NoRole, r.total_turns, r.consensus_reached)

PersistedStatus(r) == IF r.consensus_reached THEN "completed" ELSE "no_consensus"

\* update_discussion_status returns; broadcast_discussion_complete starts
UpdateStatus ==
  /\ pc = "update_status"
  /\ db_status' = PersistedStatus(result)
  /\ db_consensus_reached' = (db_consensus_reached \/ result.consensus_reached)
  /\ BroadcastBegin("run", CompleteEvent(result))
  /\ pc' = IF BroadcastSuspends THEN "bcast_complete" ELSE "done"
  /\ UNCHANGED <<disc_vars, cfg_vars, max_turns, speaker, consensus, result, msg_idx, hist,
                 db_messages, conn_state, stop_vars, post_vars, user_msgs_left>>

\* the send of broadcast_discussion_complete returned
CompleteBroadcastResumes ==
  /\ pc = "bcast_complete"
  /\ BroadcastResume("run")
  /\ pc' = CASE BroadcastOutcome("run") = "raised" -> "exc_update"
             [] BroadcastOutcome("run") = "returned" -> "done"
             [] OTHER -> pc
  /\ UNCHANGED <<disc_vars, cfg_vars, max_turns, speaker, consensus, result, msg_idx, hist,
                 db_vars, conn_state, stop_vars, post_vars, user_msgs_left>>

ErrorEvent == Event("error", NoRole, 0, FALSE)

\* except clause: update_discussion_status("failed") returns; broadcast_error
ExceptUpdateStatus ==
  /\ pc = "exc_update"
  /\ db_status' = "failed"
  /\ BroadcastBegin("run", ErrorEvent)
  /\ pc' = IF BroadcastSuspends THEN "bcast_error" ELSE "done"
  /\ UNCHANGED <<disc_vars, cfg_vars, max_turns, speaker, consensus, result, msg_idx, hist,
                 db_consensus_reached, db_messages, conn_state, stop_vars, post_vars,
                 user_msgs_left>>

\* the send of broadcast_error returned; a RuntimeError leaves the task
ErrorBroadcastResumes ==
  /\ pc = "bcast_error"
  /\ BroadcastResume("run")
  /\ pc' = IF BroadcastOutcome("run") = "suspended" THEN pc ELSE "done"
  /\ UNCHANGED <<disc_vars, cfg_vars, max_turns, speaker, consensus, result, msg_idx, hist,
                 db_vars, conn_state, stop_vars, post_vars, user_msgs_left>>

(***************************************************************************)
(* The stop route.  DiscussionOrchestrator.stop_discussion is called by    *)
(* the route and by the unit tests but is not defined in orchestrator.py;  *)
(* it is modelled from the specification and test_stop_discussion: a       *)
(* registered active discussion is marked stopped and True is returned.    *)
(***************************************************************************)
StopAccepted(st) == st = "active"

stop_discussion(st) == IF StopAccepted(st) THEN "stopped" ELSE st

StopRequest ==
  /\ stop_pc = "idle"
  /\ stops_left > 0
  /\ stops_left' = stops_left - 1
  /\ status' = stop_discussion(status)
  /\ IF StopAccepted(status)
     THEN /\ stop_pc' = "update_status"
          /\ stop_resp' = 0
          /\ stop_at' = [accepted |-> TRUE, turn |-> current_turn,
                         len |-> Len(messages)]
     ELSE /\ stop_pc' = "idle"
          /\ stop_resp' = 404
          /\ UNCHANGED stop_at
  /\ UNCHANGED <<consensus_reached, current_turn, messages, cfg_vars, run_vars,
                 db_vars, ws_vars, conn_state, post_vars, user_msgs_left>>

StoppedEvent == Event("discussion_stopped", NoRole, 0, FALSE)

\* update_discussion_status("stopped") returns; the broadcast starts
StopUpdateStatus ==
  /\ stop_pc = "update_status"
  /\ db_status' = "stopped"
  /\ BroadcastBegin("stop", StoppedEvent)
  /\ stop_pc' = IF BroadcastSuspends THEN "bcast" ELSE "idle"
  /\ stop_resp' = IF BroadcastSuspends THEN stop_resp ELSE 200
  /\ UNCHANGED <<disc_vars, cfg_vars, run_vars, db_consensus_reached, db_messages,
                 conn_state, stops_left, stop_at, post_vars, user_msgs_left>>

\* the send returned; a RuntimeError is answered with HTTP 500
StopBroadcastResumes ==
  /\ stop_pc = "bcast"
  /\ BroadcastResume("stop")
  /\ stop_pc' = IF BroadcastOutcome("stop") = "suspended" THEN stop_pc ELSE "idle"
  /\ stop_resp' = CASE BroadcastOutcome("stop") = "raised" -> 500
                    [] BroadcastOutcome("stop") = "returned" -> 200
                    [] OTHER -> stop_resp
  /\ UNCHANGED <<disc_vars, cfg_vars, run_vars, db_vars, conn_state, stops_left,
                 stop_at, post_vars, user_msgs_left>>

(***************************************************************************)
(* The message route (send_message)                                        *)
(***************************************************************************)
PostRequest ==
  /\ post_pc = "idle"
  /\ posts_left > 0
  /\ posts_left' = posts_left - 1
  /\ post_pc' = "save_message"
  /\ post_resp' = 0
  /\ UNCHANGED <<disc_vars, cfg_vars, run_vars, db_vars, ws_vars, conn_state,
                 stop_vars, user_msgs_left>>

UserMessageEvent == Event("user_message", "User", 0, FALSE)

PostSaveMessage ==
  /\ post_pc = "save_message"
  /\ db_messages' = Append(db_messages, [role_name |-> "User", is_user |-> TRUE])
  /\ BroadcastBegin("post", UserMessageEvent)
  /\ post_pc' = IF BroadcastSuspends THEN "bcast" ELSE "idle"
  /\ post_resp' = IF BroadcastSuspends THEN post_resp ELSE 200
  /\ UNCHANGED <<disc_vars, cfg_vars, run_vars, db_status, db_consensus_reached,
                 conn_state, stop_vars, posts_left, user_msgs_left>>

PostBroadcastResumes ==
  /\ post_pc = "bcast"
  /\ BroadcastResume("post")
  /\ post_pc' = IF BroadcastOutcome("post") = "suspended" THEN post_pc ELSE "idle"
  /\ post_resp' = CASE BroadcastOutcome("post") = "raised" -> 500
                    [] BroadcastOutcome("post") = "returned" -> 200
                    [] OTHER -> post_resp
  /\ UNCHANGED <<disc_vars, cfg_vars, run_vars, db_vars, conn_state, stop_vars,
                 posts_left, user_msgs_left>>

(***************************************************************************)
(* DiscussionOrchestrator.send_user_message is called by the unit tests    *)
(* but is not defined in orchestrator.py; it is modelled from the          *)
(* specification and test_send_user_message: while the discussion is       *)
(* active the message is appended with the current turn.                   *)
(***************************************************************************)
UserMessage(msgs, turn) == DiscussionMessage(Len(msgs) + 1, "User", UserText, TRUE, turn)

send_user_message ==
  /\ user_msgs_left > 0
  /\ status = "active"
  /\ user_msgs_left' = user_msgs_left - 1
  /\ messages' = Append(messages, UserMessage(messages, current_turn))
  /\ UNCHANGED <<status, consensus_reached, current_turn, cfg_vars, run_vars, db_vars,
                 ws_vars, conn_state, stop_vars, post_vars>>

(***************************************************************************)
(* The WebSocket endpoint                                                  *)
(***************************************************************************)
ConnectedEvent == Event("connected", NoRole, 0, FALSE)

send_personal_message_dropped(ib, c, ev) == ib

\* ConnectionManager.send_personal_message: send_json is called at once;
\* an exception of the send is logged and swallowed
send_personal_message(ib, c, ev) == Sent(ib, c, ev, TRUE)

\* ConnectionManager.connect, with the greeting
Connect(c) ==
  /\ conn_state[c] = "new"
  /\ conn_state' = [conn_state EXCEPT ![c] = "open"]
  /\ active_connections' = Registered(active_connections, c, DiscId)
  /\ connection_mapping' = Mapped(connection_mapping, c, DiscId)
  /\ inbox' = send_personal_message(inbox, c, ConnectedEvent)
  /\ UNCHANGED <<disc_vars, cfg_vars, run_vars, db_vars, bc, stop_vars, post_vars,
                 user_msgs_left>>

\* the client goes away: the endpoint's finally clause calls disconnect
ClientDisconnect(c) ==
  /\ conn_state[c] = "open"
  /\ conn_state' = [conn_state EXCEPT ![c] = "closed"]
  /\ LET ac2 == Discarded(active_connections, c, DiscId)
     IN  /\ active_connections' = ac2
         /\ bc' = Invalidated(bc, active_connections, ac2, "")
  /\ connection_mapping' = Unmapped(connection_mapping, c)
  /\ UNCHANGED <<disc_vars, cfg_vars, run_vars, db_vars, inbox, stop_vars, post_vars,
                 user_msgs_left>>

\* DiscussionOrchestrator.run_discussion
OrchNext ==
  \/ RunStart
  \/ SpeakerReturns
  \/ UtteranceReturns
  \/ LoopConsensusReturns
  \/ FinalConsensusReturns
  \/ FinalSummaryReturns
  \/ FinalSummaryNull

\* run_discussion_background
RunNext ==
  \/ OrchNext
  \/ SaveMessage
  \/ Wake
  \/ UpdateStatus
  \/ ExceptUpdateStatus

Next ==
  \/ RunNext
  \/ MessageBroadcastResumes
  \/ CompleteBroadcastResumes
  \/ ErrorBroadcastResumes
  \/ StopRequest
  \/ StopUpdateStatus
  \/ StopBroadcastResumes
  \/ PostRequest
  \/ PostSaveMessage
  \/ PostBroadcastResumes
  \/ \E c \in Conns : Connect(c)
  \/ \E c \in Conns : ClientDisconnect(c)

Spec == Init /\ [][Next]_vars

\* run_discussion up to its return, with stop requests and user messages
\* arriving while it runs
NextRun ==
  \/ OrchNext
  \/ StopRequest
  \/ StopUpdateStatus
  \/ send_user_message

SpecRun == InitRun /\ [][NextRun]_vars

\* run_discussion is called again on a discussion whose run has returned,
\* with any override of the cap: lines 153-171 look the discussion up and
\* start over
NumFramings(msgs) == Cardinality({k \in 1..Len(msgs) : msgs[k].role_name = "System"})

RunAgain ==
  /\ pc \in {"save_message", "update_status"}
  /\ NumFramings(messages) < MaxRuns
  /\ \E override \in {0} \cup TurnCaps :
       SetOrch(LoopHead(add_system_message(
         [Orch EXCEPT !.max_turns = EffectiveMaxTurns(override, self_max_turns),
                      !.result = NoDiscussionResult, !.msg_idx = 0])))
  /\ UNCHANGED not_run

InitRerun ==
  /\ InitCommon
  /\ db_discussions = {DiscId}
  /\ deletes_left = 0
  /\ self_max_turns \in TurnCaps
  /\ req_max_turns = 0
  /\ llm_utterances = {"U1", "FAIL"}
  /\ llm_speakers \in {{"R2"}, {"FAIL"}}
  /\ llm_analysis = AnalysisResponses
  /\ stops_left = 0
  /\ posts_left = 0
  /\ user_msgs_left = 0

NextRerun ==
  \/ OrchNext
  \/ RunAgain

SpecRerun == InitRerun /\ [][NextRerun]_vars

\* run_discussion with a speaker-selection call that always gives the same
\* kind of answer: an empty text, a name that is no role, an exception, or
\* the name of the second role
SpeakerAnswers == {"", "nobody", "FAIL", "R2"}

InitSpeaker ==
  /\ InitCommon
  /\ db_discussions = {DiscId}
  /\ deletes_left = 0
  /\ self_max_turns \in TurnCaps
  /\ req_max_turns = 0
  /\ llm_utterances = {"U1", "FAIL"}
  /\ \E a \in SpeakerAnswers : llm_speakers = {a}
  /\ llm_analysis = AnalysisResponses
  /\ stops_left = 0
  /\ posts_left = 0
  /\ user_msgs_left = 0

SpecSpeaker == InitSpeaker /\ [][OrchNext]_vars

(***************************************************************************)
(* Requests addressed to any id.  Every operation starts with the lookup   *)
(* of the id in orchestrator.active_discussions; req records the operation,*)
(* the id and the answer of the lookup ("pending" when the handler goes on)*)
(***************************************************************************)
get_discussion_any(reg, d) == d \in Ids

\* orchestrator.get_discussion: active_discussions.get(discussion_id)
get_discussion(reg, d) == d \in reg

Request(op, d, resp) == [op |-> op, id |-> d, resp |-> resp]

not_req == <<llm_vars, active_discussions, db_discussions, delete_vars, published, aux_vars>>

\* POST /{id}/message, lines 209-216
PostTo(d) ==
  /\ post_pc = "idle"
  /\ IF get_discussion(active_discussions, d)
     THEN /\ posts_left > 0
          /\ posts_left' = posts_left - 1
          /\ post_pc' = "save_message"
          /\ post_resp' = 0
          /\ req' = Request("post", d, "pending")
     ELSE /\ req' = Request("post", d, "404")
          /\ UNCHANGED post_vars
  /\ UNCHANGED <<disc_vars, not_req, run_vars, db_vars, ws_vars, conn_state,
                 stop_vars, user_msgs_left>>

\* GET /{id}: the in-memory discussion first, then the row of the table
InspectResponse(reg, rows, d) ==
  IF get_discussion(reg, d) THEN "200"
  ELSE IF d \in rows THEN "200" ELSE "404"

\* GET /{id} for the registered discussion: the status field of the answer
\* is that of the in-memory Discussion, and that of the row only when the
\* orchestrator does not know the id
InspectedStatus ==
  IF get_discussion(active_discussions, DiscId) THEN status ELSE db_status

Inspect(d) ==
  /\ req' = Request("inspect", d, InspectResponse(active_discussions, db_discussions, d))
  /\ UNCHANGED <<disc_vars, not_req, run_vars, db_vars, ws_vars, conn_state,
                 stop_vars, post_vars, user_msgs_left>>

\* POST /{id}/stop, lines 369-375; stop_discussion answers False for an id
\* that is not registered
StopTo(d) ==
  /\ stop_pc = "idle"
  /\ IF get_discussion(active_discussions, d)
     THEN /\ stops_left > 0
          /\ stops_left' = stops_left - 1
          /\ status' = stop_discussion(status)
          /\ IF StopAccepted(status)
             THEN /\ stop_pc' = "update_status"
                  /\ stop_resp' = 0
                  /\ stop_at' = [accepted |-> TRUE, turn |-> current_turn,
                                 len |-> Len(messages)]
                  /\ req' = Request("stop", d, "pending")
             ELSE /\ stop_pc' = "idle"
                  /\ stop_resp' = 404
                  /\ req' = Request("stop", d, "404")
                  /\ UNCHANGED stop_at
     ELSE /\ req' = Request("stop", d, "404")
          /\ UNCHANGED <<status, stop_vars>>
  /\ UNCHANGED <<consensus_reached, current_turn, messages, not_req, run_vars,
                 db_vars, ws_vars, conn_state, post_vars, user_msgs_left>>

\* run_discussion(discussion_id), lines 153-176
RunFor(d) ==
  /\ IF get_discussion(active_discussions, d)
     THEN /\ pc = "start"
          /\ SetOrch(run_discussion(Orch))
          /\ req' = Request("run", d, "pending")
     ELSE /\ req' = Request("run", d, "ValueError")
          /\ UNCHANGED <<disc_vars, run_vars>>
  /\ UNCHANGED <<not_req, db_vars, ws_vars, conn_state, stop_vars, post_vars,
                 user_msgs_left>>

TurnNext ==
  \/ SpeakerReturns
  \/ UtteranceReturns
  \/ LoopConsensusReturns
  \/ FinalConsensusReturns
  \/ FinalSummaryReturns
  \/ FinalSummaryNull

\* the operations addressed to the registered id, to an id that only the
\* table holds and to an id that nothing holds; no subscribers
InitLookup ==
  /\ InitCommon
  /\ db_discussions = {DiscId, StaleId}
  /\ deletes_left = 0
  /\ self_max_turns = MaxTurnsHi
  /\ req_max_turns = 0
  /\ llm_utterances = {"U1"}
  /\ llm_speakers = {"FAIL"}
  /\ llm_analysis = {r \in AnalysisResponses : r.ok /\ r.confidence = 95 /\ r.disagreements = 0}
  /\ stops_left = MaxStops
  /\ posts_left = MaxPosts
  /\ user_msgs_left = 0

NextLookup ==
  \/ TurnNext
  \/ \E d \in Ids : RunFor(d)
  \/ \E d \in Ids : PostTo(d)
  \/ PostSaveMessage
  \/ \E d \in Ids : Inspect(d)
  \/ \E d \in Ids : StopTo(d)
  \/ StopUpdateStatus

SpecLookup == InitLookup /\ [][NextLookup]_vars

(***************************************************************************)
(* DELETE /{id}, lines 400-434.  The route first awaits                    *)
(* orchestrator.stop_discussion, whose answer it ignores, then deletes the *)
(* rows, answers 404 when no discussions row was deleted, and broadcasts   *)
(* discussion_deleted otherwise.  It never touches active_discussions.     *)
(***************************************************************************)
DeleteRequest(d) ==
  /\ delete_pc = "idle"
  /\ deletes_left > 0
  /\ deletes_left' = deletes_left - 1
  /\ delete_id' = d
  /\ delete_resp' = "none"
  /\ delete_pc' = "delete_db"
  /\ IF get_discussion(active_discussions, d) /\ StopAccepted(status)
     THEN /\ status' = stop_discussion(status)
          /\ stop_at' = [accepted |-> TRUE, turn |-> current_turn,
                         len |-> Len(messages)]
     ELSE UNCHANGED <<status, stop_at>>
  /\ UNCHANGED <<consensus_reached, current_turn, messages, llm_vars,
                 active_discussions, db_discussions, req, published, aux_vars, run_vars,
                 db_vars, ws_vars, conn_state, stop_pc, stop_resp, stops_left,
                 post_vars, user_msgs_left>>

DeletedEvent == Event("discussion_deleted", NoRole, 0, FALSE)

\* delete_discussion_from_db: the messages of the id, then its row;
\* rowcount > 0 tells whether a row was there
delete_discussion_from_db(rows, d) == rows \ {d}

DeleteFromDb ==
  /\ delete_pc = "delete_db"
  /\ db_discussions' = delete_discussion_from_db(db_discussions, delete_id)
  /\ db_messages' = IF delete_id = DiscId THEN <<>> ELSE db_messages
  /\ IF delete_id \notin db_discussions
     THEN /\ delete_resp' = "404"
          /\ delete_pc' = "idle"
          /\ UNCHANGED ws_vars
     ELSE IF delete_id = DiscId
     THEN /\ BroadcastBegin("delete", DeletedEvent)
          /\ delete_pc' = IF BroadcastSuspends THEN "bcast" ELSE "idle"
          /\ delete_resp' = IF BroadcastSuspends THEN delete_resp ELSE "200"
     ELSE /\ delete_resp' = "200"
          /\ delete_pc' = "idle"
          /\ UNCHANGED ws_vars
  /\ UNCHANGED <<disc_vars, llm_vars, active_discussions, req, published, aux_vars, delete_id,
                 deletes_left, run_vars, db_status, db_consensus_reached,
                 conn_state, stop_vars, post_vars, user_msgs_left>>

DeleteBroadcastResumes ==
  /\ delete_pc = "bcast"
  /\ BroadcastResume("delete")
  /\ delete_pc' = IF BroadcastOutcome("delete") = "suspended" THEN delete_pc ELSE "idle"
  /\ delete_resp' = CASE BroadcastOutcome("delete") = "raised" -> "500"
                      [] BroadcastOutcome("delete") = "returned" -> "200"
                      [] OTHER -> delete_resp
  /\ UNCHANGED <<disc_vars, llm_vars, active_discussions, db_discussions, req,
                 published, aux_vars, delete_id, deletes_left, run_vars, db_vars, conn_state,
                 stop_vars, post_vars, user_msgs_left>>

\* the run of a discussion with DELETE and GET requests to any id; no
\* subscribers
InitRegistry ==
  /\ InitCommon
  /\ db_discussions = {DiscId}
  /\ deletes_left = MaxDeletes
  /\ self_max_turns = MaxTurnsHi
  /\ req_max_turns = 0
  /\ llm_utterances = {"U1"}
  /\ llm_speakers = {"FAIL"}
  /\ llm_analysis = {r \in AnalysisResponses : r.ok /\ r.confidence = 95 /\ r.disagreements = 0}
  /\ stops_left = 0
  /\ posts_left = 0
  /\ user_msgs_left = 0

NextRegistry ==
  \/ TurnNext
  \/ \E d \in Ids : RunFor(d)
  \/ \E d \in Ids : Inspect(d)
  \/ \E d \in Ids : DeleteRequest(d)
  \/ DeleteFromDb

SpecRegistry == InitRegistry /\ [][NextRegistry]_vars

(***************************************************************************)
(* The ConnectionManager taken alone, as its unit tests drive it:          *)
(* connections subscribe to the discussion and go away while coroutines    *)
(* call broadcast; each call hands over a new event.                       *)
(***************************************************************************)
BusConns == 1..NumBusConns

BusPublishers == {"run", "post"}

BusEvent(n) == Event("agent_message", NoRole, n, FALSE)

Publish(p) ==
  /\ ~bc[p].on
  /\ Len(published) < MaxEvents
  /\ published' = Append(published, BusEvent(Len(published) + 1))
  /\ BroadcastBegin(p, BusEvent(Len(published) + 1))
  /\ UNCHANGED <<disc_vars, llm_vars, active_discussions, db_discussions, req,
                 delete_vars, aux_vars, run_vars, db_vars, conn_state, stop_vars,
                 post_vars, user_msgs_left>>

PublishResumes(p) ==
  /\ bc[p].on
  /\ BroadcastResume(p)
  /\ UNCHANGED <<disc_vars, cfg_vars, run_vars, db_vars, conn_state, stop_vars,
                 post_vars, user_msgs_left>>

InitBus ==
  /\ status = "active"
  /\ consensus_reached = FALSE
  /\ current_turn = 0
  /\ messages = <<>>
  /\ pc = "start"
  /\ max_turns = 0
  /\ speaker = NoRole
  /\ consensus = NoResult
  /\ result = NoDiscussionResult
  /\ msg_idx = 0
  /\ hist = [loop_checks |-> {}, always_reached |-> TRUE, loop_exit |-> "none"]
  /\ db_status = "running"
  /\ db_consensus_reached = FALSE
  /\ db_messages = <<>>
  /\ active_connections = << >>
  /\ connection_mapping = << >>
  /\ conn_state = [c \in BusConns |-> "new"]
  /\ inbox = [c \in BusConns |-> <<>>]
  /\ bc = [p \in Broadcasters |-> NoBroadcast]
  /\ stop_pc = "idle"
  /\ stop_resp = 0
  /\ post_pc = "idle"
  /\ post_resp = 0
  /\ stop_at = [accepted |-> FALSE, turn |-> 0, len |-> 0]
  /\ active_discussions = {DiscId}
  /\ req = NoRequest
  /\ published = <<>>
  /\ shutdown = NoShutdown
  /\ probe = NoProbe
  /\ delete_pc = "idle"
  /\ delete_id = DiscId
  /\ delete_resp = "none"
  /\ db_discussions = {DiscId}
  /\ deletes_left = 0
  /\ self_max_turns = MaxTurnsHi
  /\ req_max_turns = 0
  /\ llm_utterances = {"U1"}
  /\ llm_speakers = {"FAIL"}
  /\ llm_analysis = AnalysisResponses
  /\ stops_left = 0
  /\ posts_left = 0
  /\ user_msgs_left = 0

NextBus ==
  \/ \E c \in BusConns : Connect(c)
  \/ \E c \in BusConns : ClientDisconnect(c)
  \/ \E p \in BusPublishers : Publish(p)
  \/ \E p \in BusPublishers : PublishResumes(p)

SpecBus == InitBus /\ [][NextBus]_vars

(***************************************************************************)
(* Shutdown: connections of two discussions subscribe and go away while    *)
(* the lifespan handler runs ConnectionManager.disconnect_all.             *)
(***************************************************************************)
SdConns == 1..NumSdConns

\* a second discussion with subscribers of its own
OtherId == "d2"

SdIds == {DiscId, OtherId}

AllSubscribers(ac) == UNION {ac[d] : d \in DOMAIN ac}

\* the WebSocket endpoint: connect(websocket, discussion_id)
ConnectTo(c, d) ==
  /\ shutdown.pc \in {"idle", "closing"}
  /\ conn_state[c] = "new"
  /\ conn_state' = [conn_state EXCEPT ![c] = "open"]
  /\ active_connections' = Registered(active_connections, c, d)
  /\ connection_mapping' = Mapped(connection_mapping, c, d)
  /\ inbox' = send_personal_message(inbox, c, ConnectedEvent)
  /\ UNCHANGED <<disc_vars, cfg_vars, run_vars, db_vars, bc, stop_vars, post_vars,
                 user_msgs_left>>

\* the endpoint's finally clause: disconnect(websocket, discussion_id)
DisconnectFrom(c) ==
  /\ shutdown.pc \in {"idle", "closing"}
  /\ conn_state[c] = "open"
  /\ c \in DOMAIN connection_mapping
  /\ conn_state' = [conn_state EXCEPT ![c] = "closed"]
  /\ active_connections' = Discarded(active_connections, c, connection_mapping[c])
  /\ connection_mapping' = Unmapped(connection_mapping, c)
  /\ UNCHANGED <<disc_vars, cfg_vars, run_vars, db_vars, inbox, bc, stop_vars,
                 post_vars, user_msgs_left>>

not_shutdown == <<llm_vars, active_discussions, db_discussions, req, delete_vars,
                  published, probe>>

\* disconnect_all from the point where the outer loop takes its next key:
\* the key is looked up in the dict (KeyError when it is gone), its set is
\* copied and the first close is awaited; without a key left the two
\* structures are cleared
disconnect_all_next(sd, ac, cm) ==
  IF sd.keys = {}
  THEN {[sd |-> [sd EXCEPT !.pc = "done"], ac |-> << >>, cm |-> << >>]}
  ELSE UNION {IF d \notin DOMAIN ac
              THEN {[sd |-> [sd EXCEPT !.pc = "raised", !.keys = @ \ {d}],
                     ac |-> ac, cm |-> cm]}
              ELSE {[sd |-> [sd EXCEPT !.pc = "closing", !.keys = @ \ {d},
                                       !.conns = ac[d] \ {c}, !.closed = @ \cup {c}],
                     ac |-> ac, cm |-> cm] : c \in ac[d]}
              : d \in sd.keys}

\* the key that list(self.active_connections.keys()) yields next: the dict
\* keeps the order in which the keys were inserted, which is any order here
ShutdownBegin ==
  /\ shutdown.pc = "idle"
  /\ \E nxt \in disconnect_all_next(
          [shutdown EXCEPT !.keys = DOMAIN active_connections,
                           !.initial = AllSubscribers(active_connections)],
          active_connections, connection_mapping) :
       /\ shutdown' = nxt.sd
       /\ active_connections' = nxt.ac
       /\ connection_mapping' = nxt.cm
  /\ UNCHANGED <<disc_vars, not_shutdown, run_vars, db_vars, conn_state, inbox, bc,
                 stop_vars, post_vars, user_msgs_left>>

\* an awaited close returned or raised (the bare except passes): the inner
\* loop closes the next connection of its copy, or the outer loop goes on
ShutdownResumes ==
  /\ shutdown.pc = "closing"
  /\ IF shutdown.conns # {}
     THEN /\ \E c \in shutdown.conns :
               shutdown' = [shutdown EXCEPT !.conns = @ \ {c}, !.closed = @ \cup {c}]
          /\ UNCHANGED <<active_connections, connection_mapping>>
     ELSE \E nxt \in disconnect_all_next(shutdown, active_connections, connection_mapping) :
            /\ shutdown' = nxt.sd
            /\ active_connections' = nxt.ac
            /\ connection_mapping' = nxt.cm
  /\ UNCHANGED <<disc_vars, not_shutdown, run_vars, db_vars, conn_state, inbox, bc,
                 stop_vars, post_vars, user_msgs_left>>

InitShutdown ==
  /\ status = "active"
  /\ consensus_reached = FALSE
  /\ current_turn = 0
  /\ messages = <<>>
  /\ pc = "start"
  /\ max_turns = 0
  /\ speaker = NoRole
  /\ consensus = NoResult
  /\ result = NoDiscussionResult
  /\ msg_idx = 0
  /\ hist = [loop_checks |-> {}, always_reached |-> TRUE, loop_exit |-> "none"]
  /\ db_status = "running"
  /\ db_consensus_reached = FALSE
  /\ db_messages = <<>>
  /\ active_connections = << >>
  /\ connection_mapping = << >>
  /\ conn_state = [c \in SdConns |-> "new"]
  /\ inbox = [c \in SdConns |-> <<>>]
  /\ bc = [p \in Broadcasters |-> NoBroadcast]
  /\ stop_pc = "idle"
  /\ stop_resp = 0
  /\ post_pc = "idle"
  /\ post_resp = 0
  /\ stop_at = [accepted |-> FALSE, turn |-> 0, len |-> 0]
  /\ active_discussions = {DiscId}
  /\ req = NoRequest
  /\ published = <<>>
  /\ shutdown = NoShutdown
  /\ probe = NoProbe
  /\ delete_pc = "idle"
  /\ delete_id = DiscId
  /\ delete_resp = "none"
  /\ db_discussions = {DiscId}
  /\ deletes_left = 0
  /\ self_max_turns = MaxTurnsHi
  /\ req_max_turns = 0
  /\ llm_utterances = {"U1"}
  /\ llm_speakers = {"FAIL"}
  /\ llm_analysis = AnalysisResponses
  /\ stops_left = 0
  /\ posts_left = 0
  /\ user_msgs_left = 0

NextShutdown ==
  \/ \E c \in SdConns, d \in SdIds : ConnectTo(c, d)
  \/ \E c \in SdConns : DisconnectFrom(c)
  \/ ShutdownBegin
  \/ ShutdownResumes

SpecShutdown == InitShutdown /\ [][NextShutdown]_vars

(***************************************************************************)
(* The ConnectionManager under all its callers at once: endpoints connect  *)
(* to two discussions and disconnect, the background task broadcasts to    *)
(* one of them, and the lifespan handler runs disconnect_all.              *)
(***************************************************************************)

\* the endpoint's finally clause, main.py:149: the connection may have been
\* removed already by a broadcast or by disconnect_all
EndpointDisconnect(c) ==
  /\ conn_state[c] = "open"
  /\ conn_state' = [conn_state EXCEPT ![c] = "closed"]
  /\ \E d \in SdIds :
       /\ c \in DOMAIN connection_mapping => d = connection_mapping[c]
       /\ LET ac2 == Discarded(active_connections, c, d)
          IN  /\ active_connections' = ac2
              /\ bc' = Invalidated(bc, active_connections, ac2, "")
  /\ connection_mapping' = Unmapped(connection_mapping, c)
  /\ UNCHANGED <<disc_vars, cfg_vars, run_vars, db_vars, inbox, stop_vars, post_vars,
                 user_msgs_left>>

\* active_connections.clear() takes the sets out of the dict and leaves
\* them as they are: a suspended broadcast goes on over its set, which
\* nothing changes any more
Orphaned(b) ==
  [p \in Broadcasters |->
     IF b[p].on
     THEN [b[p] EXCEPT !.broken = IterRaises(p), !.must = IterMust(p)]
     ELSE b[p]]

\* one step of disconnect_all, lines 249-257
DisconnectAllStep(sd) ==
  \E nxt \in disconnect_all_next(sd, active_connections, connection_mapping) :
    /\ shutdown' = nxt.sd
    /\ active_connections' = nxt.ac
    /\ connection_mapping' = nxt.cm
    /\ bc' = IF nxt.sd.pc = "done" THEN Orphaned(bc) ELSE bc

DisconnectAllBegins ==
  /\ shutdown.pc = "idle"
  /\ DisconnectAllStep([shutdown EXCEPT !.keys = DOMAIN active_connections,
                                        !.initial = AllSubscribers(active_connections)])
  /\ UNCHANGED <<disc_vars, not_shutdown, run_vars, db_vars, conn_state, inbox,
                 stop_vars, post_vars, user_msgs_left>>

DisconnectAllResumes ==
  /\ shutdown.pc = "closing"
  /\ IF shutdown.conns # {}
     THEN /\ \E c \in shutdown.conns :
               shutdown' = [shutdown EXCEPT !.conns = @ \ {c}, !.closed = @ \cup {c}]
          /\ UNCHANGED <<active_connections, connection_mapping, bc>>
     ELSE DisconnectAllStep(shutdown)
  /\ UNCHANGED <<disc_vars, not_shutdown, run_vars, db_vars, conn_state, inbox,
                 stop_vars, post_vars, user_msgs_left>>

\* the for loop of broadcast over a set that clear() took out of the dict:
\* the sends to closed connections raise, and the disconnects of lines
\* 120-122 find neither the key nor the mapping
OrphanResume(p) ==
  IF bc[p].broken
  THEN /\ bc' = [bc EXCEPT ![p] = NoBroadcast]
       /\ UNCHANGED <<active_connections, connection_mapping, inbox>>
  ELSE IF bc[p].must = {}
  THEN /\ active_connections' = DiscardedAll(active_connections, bc[p].dead, DiscId)
       /\ connection_mapping' =
            Restrict(connection_mapping, DOMAIN connection_mapping \ bc[p].dead)
       /\ bc' = [bc EXCEPT ![p] = NoBroadcast]
       /\ UNCHANGED inbox
  ELSE \E c \in bc[p].must :
         \E ok \in IF c \in shutdown.closed \/ conn_state[c] # "open"
                   THEN {FALSE} ELSE BOOLEAN :
           /\ bc' = [bc EXCEPT ![p].must = @ \ {c}, ![p].seen = @ \cup {c},
                               ![p].dead = IF ok THEN @ ELSE @ \cup {c}]
           /\ inbox' = Sent(inbox, c, bc[p].ev, ok)
           /\ UNCHANGED <<active_connections, connection_mapping>>

\* the awaited send of a broadcast returned
FanOutResumes(p) ==
  /\ bc[p].on
  /\ IF shutdown.pc = "done" THEN OrphanResume(p) ELSE BroadcastResume(p)
  /\ UNCHANGED <<disc_vars, cfg_vars, run_vars, db_vars, conn_state, stop_vars,
                 post_vars, user_msgs_left>>

\* the background task is the publisher
RunPublisher == "run"

NextConnections ==
  \/ \E c \in SdConns, d \in SdIds : ConnectTo(c, d)
  \/ \E c \in SdConns : EndpointDisconnect(c)
  \/ Publish(RunPublisher)
  \/ FanOutResumes(RunPublisher)
  \/ DisconnectAllBegins
  \/ DisconnectAllResumes

SpecConnections == InitShutdown /\ [][NextConnections]_vars

(***************************************************************************)
(* ConsensusDetector.check_consensus taken alone: a detector constructed   *)
(* with a threshold is handed a transcript; the analysis call answers      *)
(* anything.                                                               *)
(***************************************************************************)
Transcripts(sentences, n) ==
  {[k \in 1..Len(cs) |-> DiscussionMessage(k, Roles[1], cs[k], FALSE, k)] :
     cs \in UNION {[1..len -> sentences] : len \in 0..n}}

\* thresholds of the constructor, in percent
Thresholds == {0, 30, 50, 51, 85, 100}

EvalArgs(theta, msgs) ==
  [fn |-> "args", theta |-> theta, msgs |-> msgs, llm |-> FALSE, out |-> NoResult]

\* check_consensus(messages, topic, current_turn, max_turns): the snapshot
\* and whether the analysis call was made
check_consensus_at(msgs, resp, turn, cap, theta) ==
  IF check_consensus_sync(msgs) # NoResult
  THEN [out |-> check_consensus_sync(msgs), llm |-> FALSE]
  ELSE [out |-> check_consensus_finish_at(resp, turn, cap, theta), llm |-> TRUE]

Evaluate ==
  /\ probe.fn = "args"
  /\ \E resp \in llm_analysis :
       LET r == check_consensus_at(probe.msgs, resp, Len(probe.msgs), self_max_turns,
                                   probe.theta)
       IN  probe' = [probe EXCEPT !.fn = "check_consensus", !.out = r.out, !.llm = r.llm]
  /\ UNCHANGED <<disc_vars, llm_vars, active_discussions, db_discussions, req,
                 delete_vars, published, shutdown, run_vars, db_vars, ws_vars,
                 conn_state, stop_vars, post_vars, user_msgs_left>>

InitEvalCommon ==
  /\ status = "active"
  /\ consensus_reached = FALSE
  /\ current_turn = 0
  /\ messages = <<>>
  /\ pc = "start"
  /\ max_turns = 0
  /\ speaker = NoRole
  /\ consensus = NoResult
  /\ result = NoDiscussionResult
  /\ msg_idx = 0
  /\ hist = [loop_checks |-> {}, always_reached |-> TRUE, loop_exit |-> "none"]
  /\ db_status = "running"
  /\ db_consensus_reached = FALSE
  /\ db_messages = <<>>
  /\ active_connections = << >>
  /\ connection_mapping = << >>
  /\ conn_state = [c \in Conns |-> "new"]
  /\ inbox = [c \in Conns |-> <<>>]
  /\ bc = [p \in Broadcasters |-> NoBroadcast]
  /\ stop_pc = "idle"
  /\ stop_resp = 0
  /\ post_pc = "idle"
  /\ post_resp = 0
  /\ stop_at = [accepted |-> FALSE, turn |-> 0, len |-> 0]
  /\ active_discussions = {DiscId}
  /\ req = NoRequest
  /\ published = <<>>
  /\ shutdown = NoShutdown
  /\ delete_pc = "idle"
  /\ delete_id = DiscId
  /\ delete_resp = "none"
  /\ db_discussions = {DiscId}
  /\ deletes_left = 0
  /\ self_max_turns = MaxTurnsHi
  /\ req_max_turns = 0
  /\ llm_utterances = {"U1"}
  /\ llm_speakers = {"FAIL"}
  /\ llm_analysis = AnalysisResponses
  /\ stops_left = 0
  /\ posts_left = 0
  /\ user_msgs_left = 0

\* the detector of the orchestrator and every transcript of three
\* contents: V3 and V4 share exactly 7 of their 10 words, the empty content
\* has no words
InitDetect ==
  /\ InitEvalCommon
  /\ \E msgs \in Transcripts({"V3", "V4", ""}, MaxTranscript) :
       probe = EvalArgs(consensus_threshold, msgs)

SpecDetect == InitDetect /\ [][Evaluate]_vars

\* detectors of every threshold and transcripts on every path: V2 has 3 of
\* the 4 words of V1
InitThreshold ==
  /\ InitEvalCommon
  /\ \E theta \in Thresholds, msgs \in Transcripts({"V1", "V2"}, MaxTranscript) :
       probe = EvalArgs(theta, msgs)

SpecThreshold == InitThreshold /\ [][Evaluate]_vars

\* ---- role_creator.py: RoleCreator ----

\* CreateDiscussionRequest.num_agents: Field(4, ge=2, le=8)
MinAgents == 2

MaxAgents == 8

\* the longest answer of the role generator
MaxGenerated == 3

\* the default model distribution of generate_roles
DefaultPanel ==
  <<"anthropic/claude-sonnet-4.5", "openai/gpt-5-chat", "google/gemini-2.5-pro",
    "deepseek/deepseek-v3.2-exp">>

\* what the while loop appends until there is a model for every role
PadModel == "anthropic/claude-sonnet-4.5"

\* model_preferences of the request; None and [] are both the empty sequence
\* (the code tests "if not model_preferences")
PreferenceLists == {<< >>, <<"gpt-4-turbo">>, <<"gpt-4-turbo", "claude-3-opus">>}

\* the answers of the stubbed LLM to the topic-analysis call: a valid
\* analysis, a JSON object TopicAnalysis rejects, an exception
TopicResponses == {"ok", "malformed", "FAIL"}

\* one element of the generator's answer: a complete persona, or an object
\* without the "name" key
Persona(name) == [name |-> name, expertise |-> "E", perspective |-> "P"]

Nameless == [expertise |-> "E", perspective |-> "P"]

GeneratedNames == {"Neurologist", "Pharmacologist", "Expert 3"}

RoleDicts == {Persona(n) : n \in GeneratedNames} \cup {Nameless}

\* the answers of the stubbed LLM to the role-generation call: a JSON array,
\* an object with a "roles" key, a single object, any other value, an exception
RoleResponses ==
  {[kind |-> k, items |-> s] :
     k \in {"list", "roles"},
     s \in UNION {[1..len -> RoleDicts] : len \in 0..MaxGenerated}}
  \cup {[kind |-> "single", items |-> <<d>>] : d \in RoleDicts}
  \cup {[kind |-> k, items |-> << >>] : k \in {"other", "FAIL"}}

TopicAnalysis(primary_domain) == [primary_domain |-> primary_domain]

\* analyze_topic: every exception of the call or of the validation is caught
\* and answered with the generic analysis
analyze_topic(response) ==
  IF response = "ok" THEN TopicAnalysis("medical") ELSE TopicAnalysis("general")

RoleDefinition(name, expertise, perspective, model, system_prompt) ==
  [name |-> name, expertise |-> expertise, perspective |-> perspective,
   model |-> model, system_prompt |-> system_prompt]

\* the generic role at position k (k = i + 1 for the code's index i)
GenericRole(analysis, k, models) ==
  RoleDefinition("Expert " \o ToString(k),
                 "General expertise in " \o analysis.primary_domain,
                 "Perspective " \o ToString(k), models[k], "")

\* model_preferences after the default and the while loop of generate_roles
padded_preferences(model_preferences, num_roles) ==
  LET P == IF model_preferences = << >> THEN DefaultPanel ELSE model_preferences
      n == IF Len(P) < num_roles THEN num_roles ELSE Len(P)
  IN  [k \in 1..n |-> IF k <= Len(P) THEN P[k] ELSE PadModel]

\* "Handle different response formats"
role_data(response) ==
  CASE response.kind \in {"list", "roles"} -> response.items
    [] response.kind = "single" ->
         IF "name" \in DOMAIN response.items[1] THEN response.items ELSE << >>
    [] OTHER -> << >>

\* the try block of generate_roles: raised when the call fails or when one of
\* the first num_roles elements has no "name"
generate_roles_try(analysis, num_roles, model_preferences, response) ==
  LET models == padded_preferences(model_preferences, num_roles)
      data   == role_data(response)
      taken  == IF Len(data) < num_roles THEN Len(data) ELSE num_roles
  IN  IF \/ response.kind = "FAIL"
         \/ \E k \in 1..taken : "name" \notin DOMAIN data[k]
      THEN [raised |-> TRUE, roles |-> << >>]
      ELSE [raised |-> FALSE,
            roles |-> [k \in 1..num_roles |->
                         IF k <= taken
                         THEN RoleDefinition(data[k].name, data[k].expertise,
                                             data[k].perspective, models[k], "")
                         ELSE GenericRole(analysis, k, models)]]

\* generate_roles whose except clause is missing
generate_roles_uncaught(analysis, num_roles, model_preferences, response) ==
  generate_roles_try(analysis, num_roles, model_preferences, response)

generate_roles(analysis, num_roles, model_preferences, response) ==
  LET t == generate_roles_try(analysis, num_roles, model_preferences, response)
      models == padded_preferences(model_preferences, num_roles)
  IN  IF t.raised
      THEN [raised |-> FALSE,
            roles |-> [k \in 1..num_roles |-> GenericRole(analysis, k, models)]]
      ELSE t

\* the template names the role, its expertise, its perspective and the topic
create_system_prompt(role, topic) ==
  [name |-> role.name, expertise |-> role.expertise,
   perspective |-> role.perspective, topic |-> topic]

create_roles(topic, num_roles, model_preferences, topic_response, role_response) ==
  LET analysis == analyze_topic(topic_response)
      g == generate_roles(analysis, num_roles, model_preferences, role_response)
  IN  IF g.raised
      THEN g
      ELSE [raised |-> FALSE,
            roles |-> [k \in 1..Len(g.roles) |->
                         [g.roles[k] EXCEPT
                            !.system_prompt = create_system_prompt(g.roles[k], topic)]]]

Topic == "T1"

CreateArgs(num_agents, model_preferences, topic_response, role_response) ==
  [fn |-> "args", num_agents |-> num_agents, model_preferences |-> model_preferences,
   topic_response |-> topic_response, role_response |-> role_response,
   raised |-> FALSE, roles |-> << >>]

\* orchestrator.create_discussion: the roles are synthesized, then the
\* Discussion is built and registered; an exception of create_roles leaves
\* the registry as it was
CreateDiscussion ==
  /\ probe.fn = "args"
  /\ LET r == create_roles(Topic, probe.num_agents, probe.model_preferences,
                           probe.topic_response, probe.role_response)
     IN  /\ probe' = [probe EXCEPT !.fn = "create_discussion", !.raised = r.raised,
                                   !.roles = r.roles]
         /\ IF r.raised
            THEN UNCHANGED <<disc_vars, active_discussions>>
            ELSE /\ active_discussions' = active_discussions \cup {DiscId}
                 /\ status' = "active"
                 /\ consensus_reached' = FALSE
                 /\ current_turn' = 0
                 /\ messages' = <<>>
  /\ UNCHANGED <<llm_vars, db_discussions, req, delete_vars, published, shutdown,
                 run_vars, db_vars, ws_vars, conn_state, stop_vars, post_vars,
                 user_msgs_left>>

\* an orchestrator with no discussion yet and one create request: every
\* number of agents the route accepts, every preference list and every
\* answer of the two stubbed calls
InitRoles ==
  /\ status = "absent"
  /\ consensus_reached = FALSE
  /\ current_turn = 0
  /\ messages = <<>>
  /\ pc = "start"
  /\ max_turns = 0
  /\ speaker = NoRole
  /\ consensus = NoResult
  /\ result = NoDiscussionResult
  /\ msg_idx = 0
  /\ hist = [loop_checks |-> {}, always_reached |-> TRUE, loop_exit |-> "none"]
  /\ db_status = "running"
  /\ db_consensus_reached = FALSE
  /\ db_messages = <<>>
  /\ active_connections = << >>
  /\ connection_mapping = << >>
  /\ conn_state = [c \in Conns |-> "new"]
  /\ inbox = [c \in Conns |-> <<>>]
  /\ bc = [p \in Broadcasters |-> NoBroadcast]
  /\ stop_pc = "idle"
  /\ stop_resp = 0
  /\ post_pc = "idle"
  /\ post_resp = 0
  /\ stop_at = [accepted |-> FALSE, turn |-> 0, len |-> 0]
  /\ active_discussions = {}
  /\ req = NoRequest
  /\ published = <<>>
  /\ shutdown = NoShutdown
  /\ delete_pc = "idle"
  /\ delete_id = DiscId
  /\ delete_resp = "none"
  /\ db_discussions = {}
  /\ deletes_left = 0
  /\ self_max_turns = MaxTurnsHi
  /\ req_max_turns = 0
  /\ llm_utterances = {"U1"}
  /\ llm_speakers = {"FAIL"}
  /\ llm_analysis = AnalysisResponses
  /\ stops_left = 0
  /\ posts_left = 0
  /\ user_msgs_left = 0
  /\ \E n \in MinAgents..MaxAgents, prefs \in PreferenceLists,
        tr \in TopicResponses, rr \in RoleResponses :
       probe = CreateArgs(n, prefs, tr, rr)

SpecRoles == InitRoles /\ [][CreateDiscussion]_vars

\* ---- the lists handed to the detector ----

\* the longest transcript of agent and user messages
MaxMixed == 4

\* consensus.Message
Message(role_name, content, turn_number) ==
  [role_name |-> role_name, content |-> content, turn_number |-> turn_number]

\* the list comprehension of check_consensus and of generate_result: a
\* Message for each message of the discussion that is not a user message
consensus_messages(msgs) ==
  LET kept == EvaluatorMessages(msgs)
  IN  [k \in 1..Len(kept) |->
         Message(kept[k].role_name, kept[k].content, kept[k].turn_number)]

\* transcripts in which agents and the user take turns in any order
MixedTranscripts ==
  {[k \in 1..Len(a) |->
      IF a[k] = "User"
      THEN DiscussionMessage(k, "User", UserText, TRUE, k)
      ELSE DiscussionMessage(k, a[k], "U1", FALSE, k)] :
     a \in UNION {[1..n -> {"R1", "R2", "User"}] : n \in 0..MaxMixed}}

\* orchestrator.check_consensus and generate_result build their lists
BuildEvaluatorInput ==
  /\ probe.fn = "args"
  /\ probe' = [probe EXCEPT !.fn = "evaluator_input",
                            !.check = consensus_messages(probe.msgs),
                            !.summary = consensus_messages(probe.msgs)]
  /\ UNCHANGED <<disc_vars, llm_vars, active_discussions, db_discussions, req,
                 delete_vars, published, shutdown, run_vars, db_vars, ws_vars,
                 conn_state, stop_vars, post_vars, user_msgs_left>>

InitFilter ==
  /\ InitEvalCommon
  /\ \E msgs \in MixedTranscripts :
       probe = [fn |-> "args", msgs |-> msgs, check |-> <<>>, summary |-> <<>>]

SpecFilter == InitFilter /\ [][BuildEvaluatorInput]_vars

(***************************************************************************)
(* The background task with LLM calls that fail.  Every call of this       *)
(* specification returns a text or raises; the subscribers connected       *)
(* before the task started and stay.                                       *)
(***************************************************************************)
FailingAnalysis == {r \in AnalysisResponses : ~r.ok}

\* the subscriber of this specification
FirstConn == CHOOSE c \in Conns : \A d \in Conns : c <= d

InitFailures ==
  /\ status = "active"
  /\ consensus_reached = FALSE
  /\ current_turn = 0
  /\ messages = <<>>
  /\ pc = "start"
  /\ max_turns = 0
  /\ speaker = NoRole
  /\ consensus = NoResult
  /\ result = NoDiscussionResult
  /\ msg_idx = 0
  /\ hist = [loop_checks |-> {}, always_reached |-> TRUE, loop_exit |-> "none"]
  /\ db_status = "running"
  /\ db_consensus_reached = FALSE
  /\ db_messages = <<>>
  /\ active_connections = [d \in {DiscId} |-> {FirstConn}]
  /\ connection_mapping = [c \in {FirstConn} |-> DiscId]
  /\ conn_state = [c \in Conns |-> IF c = FirstConn THEN "open" ELSE "new"]
  /\ inbox = [c \in Conns |-> IF c = FirstConn THEN <<ConnectedEvent>> ELSE <<>>]
  /\ bc = [p \in Broadcasters |-> NoBroadcast]
  /\ stop_pc = "idle"
  /\ stop_resp = 0
  /\ post_pc = "idle"
  /\ post_resp = 0
  /\ stop_at = [accepted |-> FALSE, turn |-> 0, len |-> 0]
  /\ active_discussions = {DiscId}
  /\ req = NoRequest
  /\ published = <<>>
  /\ shutdown = NoShutdown
  /\ probe = NoProbe
  /\ delete_pc = "idle"
  /\ delete_id = DiscId
  /\ delete_resp = "none"
  /\ db_discussions = {DiscId}
  /\ deletes_left = 0
  /\ self_max_turns = MaxTurnsHi
  /\ req_max_turns = 0
  /\ llm_utterances \in {{"FAIL"}, {"U1", "FAIL"}}
  /\ llm_speakers \in {{"FAIL"}, {"R2", "FAIL"}}
  /\ llm_analysis \in {AnalysisResponses, FailingAnalysis}
  /\ stops_left = 0
  /\ posts_left = 0
  /\ user_msgs_left = 0

NextFailures ==
  \/ RunStart
  \/ SpeakerReturns
  \/ UtteranceReturns
  \/ LoopConsensusReturns
  \/ FinalConsensusReturns
  \/ FinalSummaryReturns
  \/ SaveMessage
  \/ MessageBroadcastResumes
  \/ Wake
  \/ UpdateStatus
  \/ CompleteBroadcastResumes

\* every awaited call returns or raises (the LLM client has a timeout of 60
\* seconds) and the event loop resumes the task
SpecFailures == InitFailures /\ [][NextFailures]_vars /\ WF_vars(NextFailures)

\* the same run when the summary call may also answer with null content:
\* generate_result raises and the except clause of the background task runs
NextTerminate ==
  \/ NextFailures
  \/ FinalSummaryNull
  \/ ExceptUpdateStatus
  \/ ErrorBroadcastResumes

SpecTerminate == InitFailures /\ [][NextTerminate]_vars /\ WF_vars(NextTerminate)

\* the background task alone, with an utterance stub that repeats one
\* sentence and turn caps that leave room for the stalemate window
InitStalemate ==
  /\ InitCommon
  /\ db_discussions = {DiscId}
  /\ deletes_left = 0
  /\ self_max_turns \in StalemateWindow..StaleTurnsHi
  /\ req_max_turns = 0
  /\ llm_utterances = {"U1"}
  /\ llm_speakers = {"FAIL"}
  /\ llm_analysis = AnalysisResponses
  /\ stops_left = 0
  /\ posts_left = 0
  /\ user_msgs_left = 0

SpecStalemate == InitStalemate /\ [][RunNext]_vars

(***************************************************************************)
(* Properties                                                              *)
(***************************************************************************)
TerminalStatuses == {"stopped", "completed", "no_consensus", "failed"}
TerminalEvents == {"discussion_complete", "discussion_stopped", "error"}

IsAgentMessage(m) == ~m.is_user /\ m.role_name # "System"
AgentIndexes(msgs) == {k \in 1..Len(msgs) : IsAgentMessage(msgs[k])}

\* the turn number of the last agent message, 0 if there is none
LastAgentTurn(msgs) ==
  IF AgentIndexes(msgs) = {} THEN 0
  ELSE msgs[CHOOSE k \in AgentIndexes(msgs) :
              \A j \in AgentIndexes(msgs) : j <= k].turn_number

AgentCount(msgs, t) ==
  Cardinality({k \in AgentIndexes(msgs) : msgs[k].turn_number = t})

\* the loop is suspended in the speaker-selection or the utterance call
MidTurn == pc \in {"select_speaker", "generate_message"}
\* the turns whose agent message has been appended
CompletedTurns == IF MidTurn THEN current_turn - 1 ELSE current_turn
\* the cap run_discussion works with
CapOfRun == IF req_max_turns # 0 THEN req_max_turns ELSE self_max_turns
\* the while loop has been left; run_discussion has returned its result
LoopLeft == hist.loop_exit # "none"
RunReturned == result.set

\* C1: once the status of the discussion is one of stopped, completed,
\* no_consensus, failed, no step of any operation changes it.
C1_TerminalStickiness ==
  [][(status \in TerminalStatuses) => (status' = status)]_vars

\* C2: a terminal event (discussion_complete, discussion_stopped, error) is
\* the last event a subscriber receives: nothing follows it in its inbox.
C2_TerminalEventLast ==
  \A c \in Conns : \A i \in 1..Len(inbox[c]) :
    inbox[c][i].type \in TerminalEvents => i = Len(inbox[c])

\* C3: once stop has been accepted the turn loop appends no agent message:
\* no agent message lies beyond the transcript length recorded at stop time.
C3_NoPostStopAppends ==
  stop_at.accepted =>
    \A k \in (stop_at.len + 1)..Len(messages) : ~IsAgentMessage(messages[k])

\* C4: after an accepted stop the status stays stopped and the loop starts no
\* new turn: current_turn goes at most one beyond its value at stop time.
C4_StopHaltsLoop ==
  stop_at.accepted =>
    /\ status = "stopped"
    /\ current_turn <= stop_at.turn + 1

\* C5: when run_discussion has returned and no stop was accepted, the status
\* is completed exactly if consensus was reached, and no_consensus when the
\* loop was left by cap exhaustion or by escalate.
C5_FinalStatus ==
  (RunReturned /\ ~stop_at.accepted) =>
    /\ (status = "completed") <=> consensus_reached
    /\ hist.loop_exit \in {"cap", "escalate"} => status = "no_consensus"

\* the turns, among those completed, at which the loop has to consult the
\* detector: the even turns from the third on
CheckTurns == {t \in 1..CompletedTurns : t >= 3 /\ t % 2 = 0}

\* C6: the loop consults the detector exactly at the even turns >= 3, and
\* when every snapshot says reached the run ends at turn 4 with status
\* completed, consensus_reached true and total_turns 4.
C6_ConsensusAtTurnFour ==
  /\ hist.loop_checks = CheckTurns
  /\ (RunReturned /\ hist.always_reached) =>
       /\ current_turn = 4
       /\ status = "completed"
       /\ consensus_reached
       /\ result.total_turns = 4

\* C6, amended: the same, provided the cap of the run is at least 4; under
\* a cap of 3 the loop is left at turn 3 without any check and without
\* consensus.
C6_ConsensusAtTurnFourUnderCap ==
  /\ hist.loop_checks = CheckTurns
  /\ (RunReturned /\ hist.always_reached /\ CapOfRun >= 4) =>
       /\ current_turn = 4
       /\ status = "completed"
       /\ consensus_reached
       /\ result.total_turns = 4
  /\ (RunReturned /\ CapOfRun < 4) =>
       /\ current_turn = CapOfRun
       /\ hist.loop_checks = {}
       /\ ~consensus_reached
       /\ result.total_turns = CapOfRun

C6_Witness ==
  /\ RunReturned
  /\ hist.always_reached
  /\ CapOfRun >= 4
  /\ hist.loop_checks = {4}
  /\ result.total_turns = 4
  /\ result.consensus_reached

\* C7: current_turn never exceeds the cap of the run, every completed turn
\* has exactly one agent message (the turn in progress has none yet), and a
\* loop left without consensus and without escalate was left at the cap.
C7_TurnCap ==
  /\ current_turn <= CapOfRun
  /\ \A t \in 1..current_turn :
       AgentCount(messages, t) = IF t <= CompletedTurns THEN 1 ELSE 0
  /\ (LoopLeft /\ hist.loop_exit \notin {"reached", "escalate"}) =>
       current_turn = CapOfRun

C7_Witness ==
  /\ RunReturned
  /\ hist.loop_exit = "cap"
  /\ req_max_turns # 0
  /\ current_turn = req_max_turns
  /\ req_max_turns < self_max_turns
  /\ \A t \in 1..current_turn : AgentCount(messages, t) = 1

\* C8: with an utterance stub that repeats one sentence, a loop that is left
\* without consensus is left by escalate at turn 6 or 8, and the status after
\* the run is no_consensus.
C8_StalemateEscalates ==
  (LoopLeft /\ hist.loop_exit # "reached") =>
    /\ hist.loop_exit = "escalate"
    /\ current_turn \in {6, 8}
    /\ ~consensus_reached
    /\ RunReturned => status = "no_consensus"

C10_TranscriptNumbering ==
  \A i \in 1..Len(messages) : messages[i].id = i

C10_Witness ==
  \E i, j, k \in 1..Len(messages) :
    /\ i < j /\ j < k
    /\ messages[i].is_user
    /\ IsAgentMessage(messages[j]) /\ messages[j].content = ErrText
    /\ IsAgentMessage(messages[k])

\* C11: a run invoked on a discussion that has terminated starts no second
\* loop: the transcript holds at most one system framing message, and that
\* message has id 1 and turn 0.
C11_SingleFraming ==
  /\ NumFramings(messages) <= 1
  /\ \A k \in 1..Len(messages) :
       messages[k].role_name = "System" => messages[k].id = 1 /\ messages[k].turn_number = 0

\* C12: a user message posted to an active discussion and acknowledged is in
\* the transcript the next agent reads, as one message flagged as the user's.
C12_PostAppends ==
  (post_resp = 200 /\ status = "active") =>
    Cardinality({k \in 1..Len(messages) : messages[k].is_user}) = 1

\* C13: a post to a discussion that is not active is rejected at once: the
\* route answers with an error and saves and publishes nothing.
C13_PostRejectedWhenTerminated ==
  [][(status # "active" /\ posts_left' < posts_left) =>
       (post_pc' = "idle" /\ post_resp' >= 400)]_vars

but_req == <<disc_vars, not_req, run_vars, db_vars, ws_vars, conn_state,
             stop_vars, post_vars, user_msgs_left>>

\* C14 as stated: every operation addressed to an id that is not in the
\* registry is rejected at once (not_found, discussion_missing for run) and
\* changes nothing.
C14_UnknownIdRejected ==
  [][(req' # req /\ req'.id \notin active_discussions) =>
       (/\ req'.resp = (IF req'.op = "run" THEN "ValueError" ELSE "404")
        /\ UNCHANGED but_req)]_vars

\* C14, amended: post, stop and run addressed to an id that is not in the
\* registry are rejected at once; inspect is rejected when the table holds
\* no row of the id either, and answers from the row otherwise; none of them
\* changes the registry, a transcript, the tables or an event stream.
C14_UnknownIdRejectedUnlessPersisted ==
  [][(req' # req /\ req'.id \notin active_discussions) =>
       (/\ req'.resp = (CASE req'.op = "run" -> "ValueError"
                          [] req'.op = "inspect" /\ req'.id \in db_discussions -> "200"
                          [] OTHER -> "404")
        /\ UNCHANGED but_req)]_vars

C14_Witness ==
  /\ req.id = UnknownId
  /\ req.op = "post"
  /\ req.resp = "404"
  /\ pc = "select_speaker"
  /\ Len(messages) > 1

\* C15: every delete is answered with success, also the delete of an id
\* that was never created or is already deleted.
C15_DeleteAlwaysSucceeds == delete_resp \in {"none", "200"}

\* C16: once the delete of the discussion has succeeded, an inspect of its
\* id answers not_found and the loop appends no further message.
C16_DeletedIsGone ==
  [][(delete_resp = "200" /\ delete_id = DiscId) =>
       (/\ messages' = messages
        /\ (req' # req /\ req'.op = "inspect" /\ req'.id = DiscId) => (req'.resp = "404"))]_vars

Occurrences(seq, ev) == Cardinality({i \in 1..Len(seq) : seq[i] = ev})

\* the connections that were subscribed when broadcast p began
InitialSubscribers(p) == bc[p].must \cup bc[p].seen

BroadcastEnds(p) == bc[p].on /\ ~bc'[p].on

\* C17: when a broadcast ends, every connection that was subscribed when it
\* began and still is, and whose send did not fail, has the event exactly
\* once.
C17_BroadcastReachesAll ==
  [][\A p \in Broadcasters : BroadcastEnds(p) =>
       \A c \in (InitialSubscribers(p) \cap Subscribers(active_connections, DiscId)) \ bc[p].dead :
         Occurrences(inbox'[c], bc[p].ev) = 1]_vars

\* C18: a broadcast in which a send failed returns normally, with the
\* failed connections out of the subscriber set and out of the reverse
\* mapping, and with the event sent to every other connection it began
\* with that is still subscribed.
C18_FailedSubscriberRemoved ==
  [][\A p \in Broadcasters : (BroadcastEnds(p) /\ bc[p].dead # {}) =>
       (/\ BroadcastOutcome(p) = "returned"
        /\ bc[p].dead \cap Subscribers(active_connections', DiscId) = {}
        /\ bc[p].dead \cap DOMAIN connection_mapping' = {}
        /\ \A c \in (InitialSubscribers(p) \cap Subscribers(active_connections', DiscId)) :
             Occurrences(inbox'[c], bc[p].ev) = 1)]_vars

\* C19: every connection receives the broadcast events in the order in
\* which they were handed to broadcast.
C19_SubscriberOrder ==
  \A c \in DOMAIN inbox : \A i, j \in 1..Len(inbox[c]) :
    (i < j /\ inbox[c][i].type = "agent_message" /\ inbox[c][j].type = "agent_message")
      => inbox[c][i].turn < inbox[c][j].turn

C21_ShutdownClosesAll ==
  [][(shutdown.pc \in {"idle", "closing"} /\ shutdown'.pc \notin {"idle", "closing"}) =>
       (/\ shutdown'.pc = "done"
        /\ active_connections' = << >>
        /\ connection_mapping' = << >>
        /\ (shutdown'.initial \cap AllSubscribers(active_connections)) \subseteq shutdown'.closed)]_vars

Evaluated == probe.fn = "check_consensus"

\* C22: every snapshot check_consensus returns has reached exactly when its
\* confidence is at least the threshold of the detector.
C22_ThresholdLaw ==
  Evaluated => (probe.out.reached <=> probe.out.confidence >= probe.theta)

\* word-set Jaccard similarity above 0.70
JaccardAbove70(a, b) ==
  /\ Words(a) \cup Words(b) # {}
  /\ 100 * Cardinality(Words(a) \cap Words(b)) > 70 * Cardinality(Words(a) \cup Words(b))

\* the number of unordered pairs of similar messages among the last 6
SimilarPairsOfLastSix(msgs) ==
  Cardinality({p \in (1..6) \X (1..6) :
                 /\ p[1] < p[2]
                 /\ JaccardAbove70(msgs[Len(msgs) - 6 + p[1]].content,
                                   msgs[Len(msgs) - 6 + p[2]].content)})

\* C23: a transcript whose last 6 messages hold at least 3 similar pairs is
\* answered reached = false, confidence 0.3, escalate, without the analysis
\* call; with at most 2 such pairs or fewer than 6 messages nothing is
\* escalated.
C23_StalematePredicate ==
  Evaluated =>
    IF Len(probe.msgs) >= 6 /\ SimilarPairsOfLastSix(probe.msgs) >= 3
    THEN /\ probe.out = ConsensusResult(FALSE, 30, 1, "escalate")
         /\ ~probe.llm
    ELSE probe.out.recommendation # "escalate"

\* exactly three similar pairs in the window of a longer transcript
C23_Witness ==
  /\ Evaluated
  /\ Len(probe.msgs) = 7
  /\ SimilarPairsOfLastSix(probe.msgs) = 3
  /\ SimilarPairsOfLastSix(SubSeq(probe.msgs, 1, 6)) = 2
  /\ probe.out.recommendation = "escalate"

Created == probe.fn = "create_discussion"

RoleNames(roles) == {roles[k].name : k \in 1..Len(roles)}

\* C24: role cardinality: for every num_roles in 2..8 and every outcome of the
\* generator (exact, fewer, more, colliding names, names equal to the generic
\* "Expert k" filler, malformed, failure of the call) synthesis returns exactly
\* num_roles roles whose names are pairwise distinct
C24_RoleCardinality ==
  Created =>
    /\ ~probe.raised
    /\ Len(probe.roles) = probe.num_agents
    /\ Cardinality(RoleNames(probe.roles)) = probe.num_agents

\* the panel the models are taken from
Panel(model_preferences) ==
  IF model_preferences = << >> THEN DefaultPanel ELSE model_preferences

\* C25: model assignment cycles: role i (counted from 0) gets P[i mod |P|] of
\* the preference list P, and of the default panel when no preference is given
C25_ModelsCycle ==
  Created =>
    LET P == Panel(probe.model_preferences)
    IN  \A k \in 1..Len(probe.roles) :
          probe.roles[k].model = P[((k - 1) % Len(P)) + 1]

AgentMessagesOfTurn(msgs, t) ==
  Cardinality({k \in 1..Len(msgs) :
                 /\ ~msgs[k].is_user
                 /\ msgs[k].role_name \in {Roles[j] : j \in 1..Len(Roles)}
                 /\ msgs[k].turn_number = t})

\* the turn has begun and its utterance is not appended yet
TurnOpen == pc \in {"select_speaker", "generate_message"}

EventTypes(c) == {inbox[c][k].type : k \in 1..Len(inbox[c])}

C27_Tolerated ==
  /\ pc \notin {"exc_update", "bcast_error"}
  /\ status # "failed"
  /\ db_status # "failed"
  /\ \A t \in 1..current_turn :
       AgentMessagesOfTurn(messages, t) = IF t = current_turn /\ TurnOpen THEN 0 ELSE 1
  /\ Len(EvaluatorMessages(messages)) =
       (IF pc = "start" THEN 0 ELSE 1) + current_turn - (IF TurnOpen THEN 1 ELSE 0)
  /\ \A c \in Conns : "error" \notin EventTypes(c)
  /\ pc = "done" =>
       /\ status \in {"completed", "no_consensus"}
       /\ db_status \in {"completed", "no_consensus"}
       /\ current_turn = max_turns \/ hist.loop_exit \in {"reached", "escalate"}
       /\ \A c \in Subscribers(active_connections, DiscId) :
            inbox[c][Len(inbox[c])].type = "discussion_complete"

C28_CrashMarksFailed ==
  [][(pc = "exc_update" /\ status = "active" /\ pc' # "exc_update") =>
       (/\ InspectedStatus' = "failed"
        /\ BroadcastSuspends => bc'["run"].ev = ErrorEvent
        /\ \A c \in Subscribers(active_connections, DiscId) :
             "discussion_complete" \notin EventTypes(c))]_vars

\* C29: consensus stickiness: consensus_reached of a discussion goes from
\* false to true at most once and never from true to false
C29_ConsensusSticky == [][consensus_reached => consensus_reached']_vars

\* the flag is still set after a second run whose final snapshot said that
\* consensus is not reached
C29_Witness ==
  /\ consensus_reached
  /\ NumFramings(messages) = MaxRuns
  /\ result.set
  /\ ~result.consensus_reached

RoleSet == {Roles[j] : j \in 1..Len(Roles)}

\* the turns of the agent_message events of the roles in the inbox of c
AgentEventTurns(c) ==
  LET IsAgentEvent(e) == e.type = "agent_message" /\ e.role \in RoleSet
      evs == SelectSeq(inbox[c], IsAgentEvent)
  IN  [k \in 1..Len(evs) |-> evs[k].turn]

\* the step that hands the agent_message event of messages[msg_idx] to broadcast
PublishesAgentMessage ==
  /\ pc = "save_message"
  /\ pc' # "save_message"
  /\ messages[msg_idx].role_name \in RoleSet

\* C30: the agent_message event of turn t is published after the message is
\* appended and before the utterance of turn t+1 is requested, and the
\* events reach each subscriber in transcript order
C30_PublishedWithinTurn ==
  [][/\ PublishesAgentMessage =>
          (/\ msg_idx <= Len(messages)
           /\ \/ current_turn = messages[msg_idx].turn_number
              \/ /\ current_turn = messages[msg_idx].turn_number + 1
                 /\ pc = "select_speaker")
     /\ \A c \in Conns : \A i, j \in 1..Len(AgentEventTurns(c)') :
          i < j => AgentEventTurns(c)'[i] < AgentEventTurns(c)'[j]]_vars

\* the number of consensus_update events c has received
ConsensusUpdates(ib, c) ==
  Cardinality({k \in 1..Len(ib[c]) : ib[c][k].type = "consensus_update"})

\* the step in which the loop takes the snapshot of an in-loop check that is
\* neither reached nor escalate
LoopCheckContinues ==
  /\ pc = "loop_consensus"
  /\ pc' # "loop_consensus"
  /\ hist'.loop_exit \notin {"reached", "escalate"}

\* C31: every in-loop consensus check whose snapshot is neither reached nor
\* escalate publishes exactly one consensus_update event before the next
\* turn begins
C31_ConsensusUpdatePublished ==
  [][LoopCheckContinues =>
       \A c \in Subscribers(active_connections, DiscId) :
         ConsensusUpdates(inbox', c) = ConsensusUpdates(inbox, c) + 1]_vars

\* the step in which the analysis call of the final check returns
FinalCheckReturns == pc = "final_consensus" /\ pc' = "final_summary"

\* the recommendation of the specification for a snapshot of the analysis path
Recommended(snap, turn, cap) ==
  IF snap.reached \/ turn >= cap \/ snap.disagreements = 0 THEN "conclude" ELSE "continue"

\* C32: on the analysis path the recommendation is conclude if reached, or
\* current_turn >= max_turns, or no disagreement remains, and continue
\* otherwise, where max_turns is the turn cap in effect for the run, a
\* per-run override included
C32_RecommendationUsesRunCap ==
  [][FinalCheckReturns =>
       consensus'.recommendation = Recommended(consensus', current_turn, max_turns)]_vars

\* C33: given fewer than 3 messages (the empty list included) the detector
\* returns reached = false, confidence 0.0 and recommendation continue
\* without calling the LLM and without a stalemate verdict
C33_TooFewMessages ==
  (Evaluated /\ Len(probe.msgs) < MinMessages) =>
    /\ probe.out = ConsensusResult(FALSE, 0, 0, "continue")
    /\ ~probe.llm

\* the detector has answered for two messages of the same content
C33_Witness ==
  /\ Evaluated
  /\ Len(probe.msgs) = MinMessages - 1
  /\ probe.msgs[1].content = probe.msgs[2].content
  /\ probe.out.confidence = 0
  /\ probe.out.recommendation = "continue"
  /\ ~probe.llm

\* the neutral snapshot of a failed analysis
NeutralSnapshot == ConsensusResult(FALSE, FallbackConfidence, 1, "continue")

\* C34: when the analysis call fails, the detector returns the neutral
\* snapshot reached = false, confidence 0.5, recommendation continue, for
\* every current_turn and max_turns
C34_FailedAnalysisNeutral ==
  [][(FinalCheckReturns /\ llm_analysis = FailingAnalysis) =>
       consensus' = NeutralSnapshot]_vars

\* the number of messages of a role among the last FallbackWindow messages
RecentCount(msgs, k) == RoleCount(Last(msgs, FallbackWindow), Roles[k])

\* the least recently active role: the first in role-list order among those
\* with the fewest messages in the last FallbackWindow messages
LeastRecentlyActive(msgs) ==
  Roles[CHOOSE k \in 1..Len(Roles) :
          /\ \A j \in 1..Len(Roles) : RecentCount(msgs, k) <= RecentCount(msgs, j)
          /\ \A j \in 1..(k - 1) : RecentCount(msgs, j) > RecentCount(msgs, k)]

\* the step in which the speaker of the turn is chosen
SpeakerChosen == pc \in {"start", "select_speaker", "generate_message", "loop_consensus"} /\ speaker' # NoRole /\ speaker = NoRole

\* C35: speaker selection returns a member of the role list: the first role
\* on turn 1, and the least recently active role when the call fails or its
\* answer matches no role, an empty answer included
C35_SpeakerSelection ==
  [][SpeakerChosen =>
       (/\ speaker' \in RoleSet
        /\ current_turn' = 1 => speaker' = Roles[1]
        /\ (current_turn' > 1 /\ llm_speakers \subseteq {"", "nobody", "FAIL"}) =>
             speaker' = LeastRecentlyActive(messages))]_vars

\* the transcript without its user messages, as Messages, in its order
RECURSIVE WithoutUsers(_)
WithoutUsers(msgs) ==
  IF msgs = <<>> THEN <<>>
  ELSE IF Head(msgs).is_user THEN WithoutUsers(Tail(msgs))
  ELSE <<Message(Head(msgs).role_name, Head(msgs).content, Head(msgs).turn_number)>>
         \o WithoutUsers(Tail(msgs))

\* C36: the evaluator's input never contains a user message: the list
\* passed to the consensus check and to the final summary is the transcript
\* with all user messages removed and the order of the others preserved
C36_NoUserMessagesEvaluated ==
  probe.fn = "evaluator_input" =>
    /\ probe.check = WithoutUsers(probe.msgs)
    /\ probe.summary = WithoutUsers(probe.msgs)
    /\ \A k \in 1..Len(probe.check) : probe.check[k].role_name # "User"
    /\ \A k \in 1..Len(probe.summary) : probe.summary[k].role_name # "User"

\* a transcript that begins user, agent, user, and its lists
C36_Witness ==
  /\ probe.fn = "evaluator_input"
  /\ Len(probe.msgs) = MaxMixed
  /\ probe.msgs[1].is_user
  /\ probe.msgs[2].role_name = "R2"
  /\ probe.msgs[3].is_user
  /\ Len(probe.check) = Len(probe.msgs) - 2
  /\ probe.check[1].turn_number = 2
  /\ probe.summary = probe.check

\* the last event handed to every subscriber is a terminal one
TerminalEventPublished ==
  \A c \in Subscribers(active_connections, DiscId) :
    /\ inbox[c] # <<>>
    /\ inbox[c][Len(inbox[c])].type \in TerminalEvents

RunTerminated ==
  /\ pc = "done"
  /\ hist.loop_exit # "none"
  /\ InspectedStatus \in TerminalStatuses
  /\ TerminalEventPublished

\* C37: when every LLM call returns or fails, every run of a registered
\* discussion leaves the loop, requests the final summary, and ends with the
\* discussion in a terminal status and a terminal event published.
C37_RunTerminates == <>RunTerminated

\* C38: a broadcast whose subscriber set is changed by a connect, a
\* disconnect or a dead-connection removal while it is suspended on a send
\* still returns normally, and has sent to every connection that was
\* subscribed from its beginning to its end.
C38_MutationSerialized ==
  [][\A p \in Broadcasters : BroadcastEnds(p) =>
       (/\ BroadcastOutcome(p) = "returned"
        /\ (InitialSubscribers(p) \cap Subscribers(active_connections, DiscId))
             \subseteq bc[p].seen)]_vars

\* ConnectionManager.get_connection_count(discussion_id)
get_connection_count(ac, d) == Cardinality(Subscribers(ac, d))

\* the connections whose reverse mapping names d
MappedTo(cm, d) == {c \in DOMAIN cm : cm[c] = d}

\* C39: a connection is in active_connections[d] exactly when
\* connection_mapping sends it to d, no key of active_connections has an
\* empty set, and get_connection_count(d) is the number of connections
\* subscribed to d.
C39_RegistryConsistent ==
  /\ \A d \in SdIds : Subscribers(active_connections, d) = MappedTo(connection_mapping, d)
  /\ DOMAIN active_connections \subseteq SdIds
  /\ \A d \in DOMAIN active_connections : active_connections[d] # {}
  /\ \A d \in SdIds :
       get_connection_count(active_connections, d)
         = Cardinality(MappedTo(connection_mapping, d))

\* a broadcast has ended and has removed a connection whose send failed,
\* before the endpoint of that connection has called disconnect; the other
\* connection is still registered for the discussion
C39_Witness ==
  /\ published # <<>>
  /\ \A p \in Broadcasters : ~bc[p].on
  /\ \E c \in SdConns :
       /\ conn_state[c] = "open"
       /\ c \notin DOMAIN connection_mapping
       /\ c \notin AllSubscribers(active_connections)
       /\ shutdown.pc = "idle"
  /\ get_connection_count(active_connections, DiscId) = 1

\* C40: once run_discussion has built its result, the consensus_reached
\* of the result (which goes into the discussion_complete event and decides
\* the persisted status) equals the consensus_reached flag of the
\* discussion.
C40_ResultAgreesWithLoop ==
  result.set => (result.consensus_reached = consensus_reached)

====
